---- MODULE Spec2Model ----
(***************************************************************************)
(* Model of the mirador-rca investigation core.                            *)
(*                                                                         *)
(* Numbers.  Go float64 scores are kept as fixed-point integers:           *)
(*   - anomaly scores and thresholds in hundredths (ScoreScale),           *)
(*   - confidence and causality scores in ten-thousandths (ConfScale),     *)
(* both rounded toward zero.  Sample values, log counts and span durations *)
(* are integers, so sums and means are exact.                              *)
(* Time.  A timestamp is an integer number of ticks of 100 ms; ZeroTime is *)
(* Go's zero time.Time, every real instant is a positive number.           *)
(* Strings.  Service names are TLA+ strings; strings.EqualFold is modelled *)
(* through ToLower on the names the model uses.  fmt.Sprintf results are   *)
(* kept as records of their parts.                                         *)
(***************************************************************************)
EXTENDS Integers, Sequences, FiniteSets, TLC

VARIABLES
    weaviate,    \* the store wired into the pipeline: "none", "no-endpoint", "endpoint"
    pc,          \* position of the InvestigateIncident call
    req,         \* the domain request (models.InvestigationRequest)
    serviceGraph,\* edges held by Investigate after FetchServiceGraph
    graphErr,    \* error returned by FetchServiceGraph (NoErr if none)
    metrics,     \* samples returned by FetchMetricSeries
    logs,        \* entries returned by FetchLogEntries
    spans,       \* spans returned by FetchTraceSpans
    similar,     \* what SimilarIncidents returned: [results, err], and whether its
                 \* request to the store failed
    result,      \* the CorrelationResult being assembled / returned
    invErr,      \* error returned by Investigate (NoErr if none)
    rpcCode,     \* gRPC status code answered by InvestigateIncident
    storeCalls,  \* StoreCorrelation calls of this investigation, in order
    storeErr,    \* error returned by the last StoreCorrelation call
    fetchErr,    \* the latest strict fetch: [signal, err], err as the client returned it
    clock,       \* the wall clock (time.Now), in ticks; it stands still during the
                 \* assembly of one result
    assembledIDs,\* the correlation ids given to the results assembled so far by
                 \* the investigations of the process, in the order of assembly
    similarTTL,  \* WeaviateRepo.similarTTL, in ticks
    simCache,    \* WeaviateRepo.cache: key -> [value, expiresAt]
    simCalls,    \* the SimilarIncidents calls made on the repo, in order
    listCfg,     \* a client paging through ListCorrelations: [repo, store, req]
    listPages,   \* the answers the client got so far, in order
    listToken,   \* the page token of the client's next request
    vkCfg,       \* ValkeyProvider.cfg: [MaxRetries]
    vkServer,    \* what the Valkey server holds for the key K
    vkCall,      \* the provider call in progress or returned last
    vkSet,       \* the Set that returned nil last, no write to K begun since
    graphCalls,  \* the FetchServiceGraph calls made on the client, in order
    fbCfg,       \* a SubmitFeedback call: [repo, req]
    fbCalls,     \* the StoreFeedback calls of the SubmitFeedback call, in order
    fbAnswer,    \* what SubmitFeedback answered: [code, ack, storeErr]
    ltMaxSize,   \* LatencyTracker.maxSize
    ltSamples,   \* LatencyTracker.samples
    ltObserved,  \* every duration handed to LatencyTracker.Observe, in the
                 \* order of the calls
    ltProcs,     \* the InvestigateIncident handlers of the service: handler ->
                 \* [pc, n, count]
    ltFailed,    \* the number of investigations that returned an error
    ltLog,       \* the "investigation latency" log entries of the service, in
                 \* order
    ltDone,      \* the investigations that returned a result: [n, logged], n
                 \* the rank of its sample among the Observe calls
    pureIn,      \* the arguments of the one function call a function's
                 \* specification makes
    pureOut,     \* what that call returned: [done, value]
    repoCfg,     \* the WeaviateRepo of NewWeaviateRepo: [endpoint, similarTTL,
                 \* patternTTL]
    repoCache,   \* WeaviateRepo.cache: key -> [value, expiresAt]
    repoCalls,   \* the calls made on the repo, in order, each with what it did
                 \* and returned
    connCfg,     \* ValkeyProvider.cfg after normaliseDurations: [ReadTimeout,
                 \* WriteTimeout]
    connCtx,     \* the context of the caller: [hasDeadline, deadline]
    connDeadlines,\* the deadlines set on the connection, in order: [kind, setAt,
                 \* deadline]
    memData,     \* ValkeyCache.data on the key K: [present, expiresAt]
    memLock,     \* ValkeyCache.mu: [readers, writer]
    memProcs,    \* the goroutines calling the cache: [op, pc, ttl, calls,
                 \* found]
    memFatal     \* the runtime has stopped the process on a concurrent map
                 \* access

vars == <<weaviate, pc, req, serviceGraph, graphErr, metrics, logs, spans, similar,
          result, invErr, rpcCode, storeCalls, storeErr, fetchErr, clock,
          assembledIDs, similarTTL, simCache, simCalls, listCfg, listPages,
          listToken, vkCfg, vkServer, vkCall, vkSet, graphCalls, fbCfg, fbCalls,
          fbAnswer, ltMaxSize, ltSamples, ltObserved, ltProcs, ltFailed, ltLog,
          ltDone, pureIn, pureOut, repoCfg, repoCache, repoCalls, connCfg,
          connCtx, connDeadlines, memData, memLock, memProcs, memFatal>>

\* the variables of one InvestigateIncident call, the clock apart
pipelineVars == <<weaviate, pc, req, serviceGraph, graphErr, metrics, logs, spans, similar,
                  result, invErr, rpcCode, storeCalls, storeErr, fetchErr>>

\* the variables the InvestigateIncident call leaves alone
idVars == <<assembledIDs>>
simVars == <<similarTTL, simCache, simCalls>>
listVars == <<listCfg, listPages, listToken>>
vkVars == <<vkCfg, vkServer, vkCall, vkSet>>
graphVars == <<graphCalls>>
feedbackVars == <<fbCfg, fbCalls, fbAnswer>>
latencyVars == <<ltMaxSize, ltSamples, ltObserved, ltProcs, ltFailed, ltLog, ltDone>>
pureVars == <<pureIn, pureOut>>
repoVars == <<repoCfg, repoCache, repoCalls>>
connVars == <<connCfg, connCtx, connDeadlines>>
memVars == <<memData, memLock, memProcs, memFatal>>
otherVars == <<idVars, simVars, listVars, vkVars, graphVars, feedbackVars, latencyVars, pureVars, repoVars, connVars, memVars>>

(***************************************************************************)
(* Bounds of the model                                                     *)
(***************************************************************************)
MaxSpans == 2
MaxBurst == 10
MaxEdges == 2
MaxInvestigations == 3
MaxTicks == 4
MaxSimCalls == 2
MaxStored == 4
MaxRetriesCfg == 2
MaxGraphCalls == 2

(***************************************************************************)
(* Program constants                                                       *)
(***************************************************************************)
ScoreScale == 100
ConfScale == 10000
ZeroTime == 0
HalfSecond == 5
DefaultMetricThreshold == 250
LogThreshold == 300
TraceThreshold == 200
MaxAnchors == 5
MaxTimeline == 10
MaxTopologyEvents == 2
SimilarLimit == 3
DefaultPageSize == 20
MaxPageSize == 100
ServiceGraphTTL == 2
ClockStart == 1000

\* A Go error: the text the outermost fmt.Errorf adds and, behind it, the
\* texts of the errors it wraps (%w), outermost first.
NoErr == [op |-> "", cause |-> <<>>]
Error(op, cause) == [op |-> op, cause |-> cause]
\* a strict fetch's error returned as it came, without the name of the fetch
ReturnUnwrapped(op, err) == err

\* fmt.Errorf("<op>: %w", err)
Wrap(op, err) == [op |-> op, cause |-> <<err.op>> \o err.cause]

(***************************************************************************)
(* Generic helpers                                                         *)
(***************************************************************************)
Min(a, b) == IF a <= b THEN a ELSE b
Max(a, b) == IF a >= b THEN a ELSE b
Abs(x) == IF x < 0 THEN -x ELSE x
Range(s) == {s[i] : i \in 1..Len(s)}
\* the last n elements of s in place of the first n
TakeLast(s, n) == SubSeq(s, Len(s) - Min(n, Len(s)) + 1, Len(s))
Take(s, n) == SubSeq(s, 1, Min(n, Len(s)))
SeqsUpTo(S, n) == UNION {[1..k -> S] : k \in 0..n}
\* the sequences of at most n distinct elements of S
DistinctSeqsUpTo(S, n) ==
    {s \in SeqsUpTo(S, n) : \A i, j \in 1..Len(s) : s[i] = s[j] => i = j}

\* Integer division rounding toward zero, as Go's float -> int conversion
\* and as the fixed-point scores are rounded.
TruncDiv(a, b) == IF a >= 0 THEN a \div b ELSE -((-a) \div b)

RECURSIVE ISqrtBetween(_, _, _)
\* the r in lo..hi with r*r <= x < (r+1)*(r+1), by bisection
ISqrtBetween(x, lo, hi) ==
    IF lo = hi THEN lo
    ELSE LET mid == (lo + hi + 1) \div 2
         IN  IF mid * mid <= x THEN ISqrtBetween(x, mid, hi)
                               ELSE ISqrtBetween(x, lo, mid - 1)
\* floor(sqrt(x)) for x >= 0
ISqrt(x) == ISqrtBetween(x, 0, x)

RECURSIVE SumSeq(_)
SumSeq(s) == IF s = <<>> THEN 0 ELSE Head(s) + SumSeq(Tail(s))

RECURSIVE InsertByKey(_, _)
\* insert the pair x = <<key, element>> behind every pair whose key is not greater
InsertByKey(sorted, x) ==
    IF sorted = <<>> THEN <<x>>
    ELSE IF x[1] < sorted[Len(sorted)][1]
         THEN Append(InsertByKey(SubSeq(sorted, 1, Len(sorted) - 1), x), sorted[Len(sorted)])
         ELSE Append(sorted, x)

RECURSIVE InsertionSortPairs(_)
InsertionSortPairs(ps) ==
    IF ps = <<>> THEN <<>>
    ELSE InsertByKey(InsertionSortPairs(SubSeq(ps, 1, Len(ps) - 1)), ps[Len(ps)])

\* The elements of s in ascending order of key[i], equal keys keeping their
\* order: sort.SliceStable, and sort.Slice on slices of at most 12 elements,
\* which Go sorts by insertion.
SortByKey(s, key) ==
    LET sorted == InsertionSortPairs([i \in 1..Len(s) |-> <<key[i], s[i]>>])
    IN  [i \in 1..Len(s) |-> sorted[i][2]]

\* strings.ToLower on the service names and severities of the model
ToLower(s) ==
    CASE s = "Checkout" -> "checkout"
      [] s = "Payments" -> "payments"
      [] s = "ERROR" -> "error"
      [] OTHER -> s

\* strings.EqualFold
EqualFold(a, b) == ToLower(a) = ToLower(b)

(***************************************************************************)
(* Anomaly extractors (internal/extractors)                                *)
(***************************************************************************)
\* The z-score (values[i] - mean) / stdDev of the i-th value, in hundredths,
\* with the population standard deviation and 0.01 substituted for a zero
\* deviation.  With n values of sum S and sum of squares Q,
\* (v - mean) / stdDev = (n*v - S) / sqrt(n*Q - S*S).
ZScore(values, i) ==
    LET n == Len(values)
        S == SumSeq(values)
        Q == SumSeq([k \in 1..n |-> values[k] * values[k]])
        D == n * Q - S * S
        num == n * values[i] - S
    IN  IF D = 0
        THEN TruncDiv(ScoreScale * 100 * num, n)
        ELSE LET mag == ISqrt((ScoreScale * ScoreScale * num * num) \div D)
             IN  IF num < 0 THEN -mag ELSE mag

\* MetricExtractor.Detect
MetricDetect(series, threshold) ==
    IF Len(series) = 0 THEN <<>>
    ELSE LET thr == IF threshold <= 0 THEN DefaultMetricThreshold ELSE threshold
             values == [k \in 1..Len(series) |-> series[k].Value]
             scored == [k \in 1..Len(series) |->
                          [Timestamp |-> series[k].Timestamp, Value |-> series[k].Value,
                           Score |-> ZScore(values, k), Threshold |-> thr]]
         IN  SelectSeq(scored, LAMBDA a : a.Score >= thr)

\* the largest of the values in place of their median
Largest(values) ==
    IF Len(values) = 0 THEN 0
    ELSE SortByKey(values, values)[Len(values)]

\* percentile(values, 0.5): the element at index round(0.5 * (n - 1)) of the
\* sorted values; math.Round rounds halves away from zero, so the index is
\* n \div 2 (0-based).
Median(values) ==
    IF Len(values) = 0 THEN 0
    ELSE SortByKey(values, values)[(Len(values) \div 2) + 1]

\* n times meanAbsoluteDeviation(values, center)
AbsDeviationSum(values, center) ==
    SumSeq([k \in 1..Len(values) |-> Abs(values[k] - center)])

\* LogsExtractor.Detect
LogsDetect(entries) ==
    IF Len(entries) = 0 THEN <<>>
    ELSE LET n == Len(entries)
             counts == [k \in 1..n |-> entries[k].Count]
             median == Median(counts)
             devSum == AbsDeviationSum(counts, median)
             Score(c) == IF devSum = 0 THEN ScoreScale * Abs(c - median)
                         ELSE (ScoreScale * n * Abs(c - median)) \div devSum
             scored == [k \in 1..n |->
                          LET e == entries[k] IN
                          IF Score(e.Count) >= LogThreshold
                          THEN [keep |-> TRUE, a |-> [Timestamp |-> e.Timestamp, Severity |-> e.Severity,
                                                      Count |-> e.Count, Score |-> Score(e.Count)]]
                          ELSE IF EqualFold(e.Severity, "error") /\ e.Count > (median * 13) \div 10
                          THEN [keep |-> TRUE, a |-> [Timestamp |-> e.Timestamp, Severity |-> e.Severity,
                                                      Count |-> e.Count, Score |-> LogThreshold]]
                          ELSE [keep |-> FALSE, a |-> [Timestamp |-> e.Timestamp, Severity |-> e.Severity,
                                                       Count |-> e.Count, Score |-> 0]]]
             kept == SelectSeq(scored, LAMBDA x : x.keep)
         IN  [k \in 1..Len(kept) |-> kept[k].a]

\* TracesExtractor.Detect
TracesDetect(ss) ==
    IF Len(ss) = 0 THEN <<>>
    ELSE LET durations == [k \in 1..Len(ss) |-> ss[k].Duration]
             scored == [k \in 1..Len(ss) |-> [Span |-> ss[k], Score |-> ZScore(durations, k)]]
         IN  SelectSeq(scored, LAMBDA a : a.Score >= TraceThreshold \/ a.Span.Status = "error")

(***************************************************************************)
(* Causality engine (internal/engine/causality.go)                         *)
(***************************************************************************)
RECURSIVE FirstEventTimeFrom(_, _, _)
FirstEventTimeFrom(service, events, i) ==
    IF i > Len(events) THEN ZeroTime
    ELSE IF EqualFold(events[i].Service, service) THEN events[i].Time
    ELSE FirstEventTimeFrom(service, events, i + 1)

\* rootEventTime: the time of the first event of the service, or the zero time
rootEventTime(service, events) == FirstEventTimeFrom(service, events, 1)

\* firstEventTime
firstEventTime(service, events) == FirstEventTimeFrom(service, events, 1)

NoEdge == [Source |-> "", Target |-> "", CallRate |-> 0, ErrorRate |-> 0]

\* suggestedEdgeSet
suggestedEdgeSet(edge) == edge.Source # "" \/ edge.Target # ""

\* One iteration of the loop of Evaluate over the edges: acc holds
\* totalUpstream, supporting and the suggested edge.
EvaluateEdge(acc, edge, rootService, rootTime, timeline) ==
    IF ~EqualFold(edge.Target, rootService) THEN acc
    ELSE LET srcTime == firstEventTime(edge.Source, timeline)
             counted == [acc EXCEPT !.total = @ + 1]
         IN  IF srcTime = ZeroTime
             THEN IF edge.ErrorRate > 0
                  THEN [counted EXCEPT !.supporting = @ + 1,
                                       !.suggested = IF ~suggestedEdgeSet(@) \/ edge.ErrorRate > @.ErrorRate
                                                     THEN edge ELSE @]
                  ELSE counted
             ELSE IF srcTime < rootTime
                  THEN [counted EXCEPT !.supporting = @ + 1,
                                       !.suggested = IF ~suggestedEdgeSet(@) \/ edge.CallRate > @.CallRate
                                                     THEN edge ELSE @]
                  ELSE counted

RECURSIVE EvaluateEdges(_, _, _, _, _, _)
EvaluateEdges(acc, edges, i, rootService, rootTime, timeline) ==
    IF i > Len(edges) THEN acc
    ELSE EvaluateEdges(EvaluateEdge(acc, edges[i], rootService, rootTime, timeline),
                       edges, i + 1, rootService, rootTime, timeline)

NoCausality == [Score |-> 0, SuggestedService |-> ""]

\* the value as it is, whatever the limits
Unclamped(value, lo, hi) == value

\* clamp
clamp(value, lo, hi) == IF value < lo THEN lo ELSE IF value > hi THEN hi ELSE value

\* Evaluate scoring the edges although the timeline holds no event
EvaluateEmptyTimeline(rootService, timeline, edges) ==
    IF rootService = "" \/ Len(edges) = 0 THEN NoCausality
    ELSE LET found == rootEventTime(rootService, timeline)
             rootTime == IF found = ZeroTime /\ Len(timeline) > 0 THEN timeline[1].Time ELSE found
             acc == EvaluateEdges([total |-> 0, supporting |-> 0, suggested |-> NoEdge],
                                  edges, 1, rootService, rootTime, timeline)
         IN  IF acc.total = 0 THEN NoCausality
             ELSE [Score |-> clamp((4 * ConfScale) \div 10
                                     + (6 * ConfScale * acc.supporting) \div (10 * acc.total),
                                   0, ConfScale),
                   SuggestedService |-> IF suggestedEdgeSet(acc.suggested)
                                        THEN acc.suggested.Source ELSE ""]

\* CausalityEngine.Evaluate (the notes are log output only)
Evaluate(rootService, timeline, edges) ==
    IF rootService = "" \/ Len(edges) = 0 \/ Len(timeline) = 0 THEN NoCausality
    ELSE LET found == rootEventTime(rootService, timeline)
             rootTime == IF found = ZeroTime THEN timeline[1].Time ELSE found
             acc == EvaluateEdges([total |-> 0, supporting |-> 0, suggested |-> NoEdge],
                                  edges, 1, rootService, rootTime, timeline)
         IN  IF acc.total = 0 THEN NoCausality
             ELSE [Score |-> clamp((4 * ConfScale) \div 10
                                     + (6 * ConfScale * acc.supporting) \div (10 * acc.total),
                                   0, ConfScale),
                   SuggestedService |-> IF suggestedEdgeSet(acc.suggested)
                                        THEN acc.suggested.Source ELSE ""]

(***************************************************************************)
(* Pipeline helpers (internal/engine/pipeline.go)                          *)
(***************************************************************************)
RECURSIVE firstNonEmpty(_)
firstNonEmpty(values) ==
    IF values = <<>> THEN ""
    ELSE IF Head(values) # "" THEN Head(values) ELSE firstNonEmpty(Tail(values))

\* The nominal service: Investigate, lines 84-90
NominalService(r) ==
    LET first == firstNonEmpty(r.AffectedServices)
        second == IF first = "" /\ Len(r.Symptoms) > 0 THEN r.Symptoms[1] ELSE first
    IN  IF second = "" THEN "unknown-service" ELSE second

\* the values as they come, empty strings and duplicates included
KeepStrings(values) == values

RECURSIVE uniqueStrings(_)
\* uniqueStrings: drop empty strings and later duplicates
uniqueStrings(values) ==
    IF values = <<>> THEN <<>>
    ELSE LET init == uniqueStrings(SubSeq(values, 1, Len(values) - 1))
             v == values[Len(values)]
         IN  IF v = "" \/ v \in Range(init) THEN init ELSE Append(init, v)

\* severityFromScore
severityFromScore(score) ==
    IF score >= 4 * ScoreScale THEN "critical"
    ELSE IF score >= 3 * ScoreScale THEN "high"
    ELSE IF score >= 2 * ScoreScale THEN "medium"
    ELSE "low"

\* buildAnchors
buildAnchors(service, metricAnoms, logAnoms, traceAnoms) ==
    LET all == [k \in 1..Len(metricAnoms) |->
                   [Service |-> service, Selector |-> <<"metrics", "cpu_usage">>, DataType |-> "metrics",
                    Timestamp |-> metricAnoms[k].Timestamp, AnomalyScore |-> metricAnoms[k].Score,
                    Threshold |-> metricAnoms[k].Threshold]]
               \o [k \in 1..Len(logAnoms) |->
                   [Service |-> service, Selector |-> <<"logs", logAnoms[k].Severity>>, DataType |-> "logs",
                    Timestamp |-> logAnoms[k].Timestamp, AnomalyScore |-> logAnoms[k].Score,
                    Threshold |-> LogThreshold]]
               \o [k \in 1..Len(traceAnoms) |->
                   [Service |-> traceAnoms[k].Span.Service,
                    Selector |-> <<"trace", traceAnoms[k].Span.Operation>>, DataType |-> "traces",
                    Timestamp |-> traceAnoms[k].Span.Timestamp, AnomalyScore |-> traceAnoms[k].Score,
                    Threshold |-> TraceThreshold]]
        sorted == SortByKey(all, [k \in 1..Len(all) |-> -all[k].AnomalyScore])
    IN  Take(sorted, MaxAnchors)

\* sort.Slice(timeline, by Time)
SortTimeline(timeline) == SortByKey(timeline, [k \in 1..Len(timeline) |-> timeline[k].Time])

\* buildTimeline, lines 221-258: one event per anomaly, metrics first, then
\* logs, then traces
timelineEvents(metricAnoms, logAnoms, traceAnoms) ==
    [k \in 1..Len(metricAnoms) |->
        [Time |-> metricAnoms[k].Timestamp, Event |-> <<"Metric anomaly detected">>,
         Service |-> "", Severity |-> severityFromScore(metricAnoms[k].Score),
         AnomalyScore |-> metricAnoms[k].Score, DataSource |-> "metrics"]]
    \o [k \in 1..Len(logAnoms) |->
        [Time |-> logAnoms[k].Timestamp, Event |-> <<"Log spike", logAnoms[k].Severity>>,
         Service |-> "", Severity |-> severityFromScore(logAnoms[k].Score),
         AnomalyScore |-> logAnoms[k].Score, DataSource |-> "logs"]]
    \o [k \in 1..Len(traceAnoms) |->
        [Time |-> traceAnoms[k].Span.Timestamp,
         Event |-> <<"Slow span", traceAnoms[k].Span.Operation>>,
         Service |-> traceAnoms[k].Span.Service,
         Severity |-> IF traceAnoms[k].Span.Status = "error" THEN "high"
                      ELSE severityFromScore(traceAnoms[k].Score),
         AnomalyScore |-> traceAnoms[k].Score, DataSource |-> "traces"]]

\* buildTimeline
buildTimeline(metricAnoms, logAnoms, traceAnoms) ==
    Take(SortTimeline(timelineEvents(metricAnoms, logAnoms, traceAnoms)), MaxTimeline)

RECURSIVE MaxScoreFrom(_, _)
MaxScoreFrom(scores, best) ==
    IF scores = <<>> THEN best
    ELSE MaxScoreFrom(Tail(scores), IF Head(scores) > best THEN Head(scores) ELSE best)

\* maxMetricScore, maxLogScore, maxTraceScore: the largest score, or 0
MaxScore(anoms) == MaxScoreFrom([k \in 1..Len(anoms) |-> anoms[k].Score], 0)

\* 0.25 + clamp(maxScore / divisor, 0, cap), in ten-thousandths
SignalConfidence(anoms, divisor, cap) ==
    IF Len(anoms) = 0 THEN 0
    ELSE ConfScale \div 4
         + clamp(TruncDiv(MaxScore(anoms) * (ConfScale \div ScoreScale), divisor), 0, cap)

\* computeConfidence
computeConfidence(metricAnoms, logAnoms, traceAnoms) ==
    LET sum == SignalConfidence(metricAnoms, 8, ConfScale \div 4)
               + SignalConfidence(logAnoms, 6, ConfScale \div 5)
               + SignalConfidence(traceAnoms, 6, ConfScale \div 5)
    IN  IF sum > ConfScale THEN ConfScale ELSE sum

\* calibrateConfidence
calibrateConfidence(base, causality) ==
    LET b == clamp(base, 0, ConfScale)
    IN  IF causality <= 0 THEN clamp((b * 7) \div 10, 0, ConfScale)
        ELSE clamp((b * 6) \div 10 + (causality * 4) \div 10, 0, ConfScale)

\* deriveRootCause
deriveRootCause(service, anchors) ==
    IF Len(anchors) = 0
    THEN [kind |-> "no dominant anchor", subject |-> service, selector |-> <<>>, object |-> ""]
    ELSE [kind |-> "anomaly", subject |-> anchors[1].Service,
          selector |-> anchors[1].Selector, object |-> ""]

\* The set the map of neighborServices holds
NeighborSet(edges, service) ==
    {edges[k].Target : k \in {j \in 1..Len(edges) : edges[j].Source = service}}
    \cup {edges[k].Source : k \in {j \in 1..Len(edges) : edges[j].Target = service}}

\* neighborServices: the neighbours in the order of one iteration over the
\* map, which Go leaves unspecified
neighborServices(edges, service) ==
    LET set == NeighborSet(edges, service)
    IN  {order \in [1..Cardinality(set) -> set] : Range(order) = set}

\* the " (error rate X.XX%)" suffix of a topology event
ErrorRateSuffix(edge) == IF edge.ErrorRate > 0 THEN "(error rate)" ELSE ""

\* appendTopologyEvents; now is the value of time.Now().UTC() it would read
appendTopologyEvents(timeline, service, edges, now) ==
    IF Len(edges) = 0 THEN timeline
    ELSE LET related == SelectSeq(edges, LAMBDA e : e.Source = service \/ e.Target = service)
         IN  IF Len(related) = 0 THEN timeline
             ELSE LET byRate == SortByKey(related, [k \in 1..Len(related) |-> -related[k].CallRate])
                      limit == Min(MaxTopologyEvents, Len(related))
                      found == rootEventTime(service, timeline)
                      rootTime == IF found = ZeroTime THEN now ELSE found
                      events == [k \in 1..limit |->
                                   LET edge == byRate[k] IN
                                   IF edge.Target = service
                                   THEN [Time |-> rootTime - HalfSecond,
                                         Event |-> <<"Service graph: upstream", edge.Source, edge.Target,
                                                     ErrorRateSuffix(edge)>>,
                                         Service |-> edge.Source, Severity |-> "low",
                                         AnomalyScore |-> 0, DataSource |-> "traces"]
                                   ELSE [Time |-> rootTime + HalfSecond,
                                         Event |-> <<"Service graph:", edge.Source, edge.Target,
                                                     ErrorRateSuffix(edge)>>,
                                         Service |-> edge.Target, Severity |-> "low",
                                         AnomalyScore |-> 0, DataSource |-> "traces"]]
                  IN  SortTimeline(timeline \o events)

(***************************************************************************)
(* Rule engine (RuleEngine.Recommend)                                      *)
(***************************************************************************)
\* The rule pack loaded at startup: rule1 of TestPipelineRulesFallback and a
\* rule that matches on the severity and selector fields of RuleMatch.
RulePack ==
    << [ID |-> "rule1", Service |-> "checkout", Severity |-> "", SelectorContains |-> <<>>,
        Recommendations |-> <<"Rule Rec">>],
       [ID |-> "traces", Service |-> "", Severity |-> "high", SelectorContains |-> <<"trace">>,
        Recommendations |-> <<"Inspect slow spans", "Rule Rec">>] >>

\* serviceMatches
serviceMatches(service, r, anchors) ==
    \/ \E i \in 1..Len(r.AffectedServices) : EqualFold(service, r.AffectedServices[i])
    \/ \E i \in 1..Len(anchors) : EqualFold(service, anchors[i].Service)

\* timelineHasSeverity
timelineHasSeverity(severity, events) ==
    severity = "" \/ \E i \in 1..Len(events) : EqualFold(severity, events[i].Severity)

\* strings.Contains(strings.ToLower(selector), strings.ToLower(kw)) on the
\* selectors "<signal>:<subject>" and the keywords of the model: a keyword
\* is found when it is the signal or the subject of the selector.
SelectorContains(selector, kw) ==
    ToLower(kw) = ToLower(selector[1]) \/ ToLower(kw) = ToLower(selector[2])

\* anchorsContain
anchorsContain(keywords, anchors) ==
    Len(keywords) = 0
    \/ \E i \in 1..Len(anchors) : \E k \in 1..Len(keywords) :
          keywords[k] # "" /\ SelectorContains(anchors[i].Selector, keywords[k])

\* an appendUnique that keeps the additions only
KeepAdditions(existing, additions) == additions

RECURSIVE appendUnique(_, _)
\* appendUnique
appendUnique(existing, additions) ==
    IF additions = <<>> THEN existing
    ELSE LET item == Head(additions)
         IN  IF item = "" \/ item \in Range(existing)
             THEN appendUnique(existing, Tail(additions))
             ELSE appendUnique(Append(existing, item), Tail(additions))

RuleFires(rule, r, anchors, timeline) ==
    /\ rule.Service = "" \/ serviceMatches(rule.Service, r, anchors)
    /\ rule.Severity = "" \/ timelineHasSeverity(rule.Severity, timeline)
    /\ Len(rule.SelectorContains) = 0 \/ anchorsContain(rule.SelectorContains, anchors)

RECURSIVE RecommendFrom(_, _, _, _, _)
RecommendFrom(rules, matched, r, anchors, timeline) ==
    IF rules = <<>> THEN matched
    ELSE RecommendFrom(Tail(rules),
                       IF RuleFires(Head(rules), r, anchors, timeline)
                       THEN appendUnique(matched, Head(rules).Recommendations) ELSE matched,
                       r, anchors, timeline)

\* RuleEngine.Recommend
Recommend(rules, r, anchors, timeline) == RecommendFrom(rules, <<>>, r, anchors, timeline)

\* defaultRecommendations
defaultRecommendations ==
    <<"Review recent deployments for regressions",
      "Check upstream dependencies for correlated errors">>

\* recommendFromRules
recommendFromRules(r, anchors, timeline) ==
    LET recs == Recommend(RulePack, r, anchors, timeline)
    IN  IF Len(recs) > 0 THEN recs ELSE defaultRecommendations

(***************************************************************************)
(* Similarity store (WeaviateRepo)                                         *)
(***************************************************************************)
\* syntheticSimilarIncidents
syntheticSimilarIncidents(symptoms, limit) ==
    LET n == IF limit <= 0 THEN 3 ELSE limit
        base == <<"Check downstream dependencies", "Review recent deploy">>
    IN  [i \in 1..n |->
           [CorrelationID |-> <<"synthetic-", i>>,
            Recommendations |-> IF i = 1 /\ Len(symptoms) > 0
                                THEN Append(base, "Symptom hint: " \o symptoms[1])
                                ELSE base]]

\* SimilarIncidents answering a failed request to the store with an error
SimilarIncidentsReturningFailure(outcome, records, symptoms, limit) ==
    CASE outcome = "no-endpoint" ->
           [results |-> syntheticSimilarIncidents(symptoms, limit), err |-> NoErr]
      [] outcome \in {"bad-request", "unreachable", "non-200", "undecodable"} ->
           [results |-> <<>>, err |-> Error(outcome, <<>>)]
      [] OTHER ->
           [results |-> records, err |-> NoErr]

\* WeaviateRepo.SimilarIncidents with the cache disabled (NoopProvider):
\* what it returns for each outcome of its request to the store.
\*   "no-endpoint"  r.endpoint == ""
\*   "bad-request"  json.Marshal or http.NewRequestWithContext failed
\*   "unreachable"  httpClient.Do failed
\*   "non-200"      the store answered with another status
\*   "undecodable"  the body could not be decoded
\*   "ok"           the records of the body, converted
SimilarIncidents(outcome, records, symptoms, limit) ==
    CASE outcome = "no-endpoint" ->
           [results |-> syntheticSimilarIncidents(symptoms, limit), err |-> NoErr]
      [] outcome = "bad-request" ->
           [results |-> <<>>, err |-> Error("bad-request", <<>>)]
      [] outcome \in {"unreachable", "non-200", "undecodable"} ->
           [results |-> syntheticSimilarIncidents(symptoms, limit), err |-> NoErr]
      [] OTHER ->
           [results |-> records, err |-> NoErr]

\* fetchRecommendations taking the first incident that has recommendations
fetchRecommendationsOfAnyIncident(storeConfigured, sim, r, anchors, timeline) ==
    LET with == IF storeConfigured /\ sim.err = NoErr
                THEN SelectSeq(sim.results, LAMBDA inc : Len(inc.Recommendations) > 0)
                ELSE <<>>
    IN  IF Len(with) > 0 THEN with[1].Recommendations
        ELSE recommendFromRules(r, anchors, timeline)

\* fetchRecommendations; sim is what SimilarIncidents returned
fetchRecommendations(storeConfigured, sim, r, anchors, timeline) ==
    IF ~storeConfigured THEN recommendFromRules(r, anchors, timeline)
    ELSE IF sim.err # NoErr \/ Len(sim.results) = 0 THEN recommendFromRules(r, anchors, timeline)
    ELSE IF Len(sim.results[1].Recommendations) = 0 THEN recommendFromRules(r, anchors, timeline)
    ELSE sim.results[1].Recommendations

(***************************************************************************)
(* Inputs: requests and upstream responses                                 *)
(***************************************************************************)
NilTimestamp == -1

\* RCAInvestigationRequest messages.  TimeRange.present is FALSE for a nil
\* TimeRange; a bound is NilTimestamp when the Timestamp is nil.
TimeRanges ==
    { [present |-> FALSE, Start |-> NilTimestamp, End |-> NilTimestamp],
      [present |-> TRUE, Start |-> NilTimestamp, End |-> 115],
      [present |-> TRUE, Start |-> 100, End |-> ZeroTime],
      [present |-> TRUE, Start |-> 100, End |-> 115] }

\* The requests of tenant-a, one request that names no tenant, one whose
\* time range ends before it starts, and the nil request.
ProtoRequests ==
    [nil : {FALSE}, IncidentId : {"incident-123"},
     Symptoms : {<<>>, <<"latency">>},
     TimeRange : TimeRanges,
     AffectedServices : {<<>>, <<"", "checkout">>},
     AnomalyThreshold : {0, ScoreScale},
     TenantId : {"tenant-a"}]
    \cup
    [nil : {FALSE}, IncidentId : {"incident-123"},
     Symptoms : {<<"latency">>},
     TimeRange : {[present |-> TRUE, Start |-> 100, End |-> 115]},
     AffectedServices : {<<"", "checkout">>},
     AnomalyThreshold : {0},
     TenantId : {""}]
    \cup
    [nil : {FALSE}, IncidentId : {"incident-123"},
     Symptoms : {<<"latency">>},
     TimeRange : {[present |-> TRUE, Start |-> 115, End |-> 100]},
     AffectedServices : {<<"", "checkout">>},
     AnomalyThreshold : {0},
     TenantId : {"tenant-a"}]
    \cup
    [nil : {TRUE}, IncidentId : {""}, Symptoms : {<<>>},
     TimeRange : {[present |-> FALSE, Start |-> NilTimestamp, End |-> NilTimestamp]},
     AffectedServices : {<<>>}, AnomalyThreshold : {0}, TenantId : {""}]

NoRequest ==
    [IncidentID |-> "", Symptoms |-> <<>>, TimeRange |-> [Start |-> ZeroTime, End |-> ZeroTime],
     AffectedServices |-> <<>>, AnomalyThreshold |-> 0, TenantID |-> ""]

\* n samples one tick apart, the last k at value 5 and the others at 1
SpikeSeries(n, k) ==
    [i \in 1..n |-> [Timestamp |-> 100 + i, Value |-> IF i > n - k THEN 5 ELSE 1]]

\* Metric series the aggregator may answer with
MetricSeriesPool == {SpikeSeries(2, 1)}

\* Log aggregates the aggregator may answer with
LogEntriesPool ==
    { << [Timestamp |-> 105, Severity |-> "info", Count |-> 10],
         [Timestamp |-> 110, Severity |-> "error", Count |-> 40] >>,
      << [Timestamp |-> 103, Severity |-> "info", Count |-> 10],
         [Timestamp |-> 104, Severity |-> "info", Count |-> 12],
         [Timestamp |-> 109, Severity |-> "ERROR", Count |-> 14],
         [Timestamp |-> 106, Severity |-> "info", Count |-> 8],
         [Timestamp |-> 107, Severity |-> "info", Count |-> 10] >> }

Span(service, status, duration, ts) ==
    [TraceID |-> "trace-1", SpanID |-> "span-1", Service |-> service, Operation |-> "HTTP POST",
     Duration |-> duration, Status |-> status, Timestamp |-> ts]

SpanPool ==
    { Span("checkout", "error", 9, 111),
      Span("payments", "error", 1, 105),
      Span("checkout", "ok", 1, 108) }

\* n error spans of the checkout service, one tick apart
ErrorBurst(n) == [i \in 1..n |-> Span("checkout", "error", 9, 110 + i)]

\* Span lists the aggregator may answer with (never empty: see FetchTraceSpans)
SpanListPool ==
    (DistinctSeqsUpTo(SpanPool, MaxSpans) \ {<<>>}) \cup {ErrorBurst(MaxBurst - 1), ErrorBurst(MaxBurst)}

Edge(source, target, callRate, errorRate) ==
    [Source |-> source, Target |-> target, CallRate |-> callRate, ErrorRate |-> errorRate]

EdgePool ==
    { Edge("checkout", "payments", 120, 0),
      Edge("payments", "checkout", 100, 5),
      Edge("Payments", "Checkout", 80, 5) }

\* Edge lists the aggregator may answer with
EdgeListPool == DistinctSeqsUpTo(EdgePool, MaxEdges)

\* Record lists the store may answer SimilarIncidents with
SimilarRecordsPool ==
    { <<>>,
      << [CorrelationID |-> <<"corr-", 1>>, Recommendations |-> <<"Check caching layer", "Verify deployment">>] >>,
      << [CorrelationID |-> <<"corr-", 1>>, Recommendations |-> <<>>],
         [CorrelationID |-> <<"corr-", 2>>, Recommendations |-> <<"Verify deployment">>] >> }

\* How a request of the signal client can fail (postJSON)
FetchFailures == {"unreachable", "non-200", "undecodable"}

NoResult ==
    [CorrelationID |-> <<"", 0>>, IncidentID |-> "", RootCause |-> deriveRootCause("", <<>>),
     Confidence |-> 0, AffectedServices |-> <<>>, Recommendations |-> <<>>, RedAnchors |-> <<>>,
     Timeline |-> <<>>, CreatedAt |-> ZeroTime]

NoFetch == [signal |-> "", err |-> NoErr]

NoSimilar == [results |-> <<>>, err |-> NoErr, failed |-> FALSE]

(***************************************************************************)
(* Signal client (MiradorCoreClient)                                       *)
(***************************************************************************)
\* FetchMetricSeries, FetchLogEntries, FetchTraceSpans, FetchServiceGraph:
\* what the client returns for an outcome of postJSON and the items the
\* aggregator holds for the query.  A failed request and an empty list are
\* both errors, and an error comes with no items.
\* the client handing back the items it has together with the error
ClientFetchKeepsItems(signal, outcome, items) ==
    IF outcome \in FetchFailures
    THEN [items |-> items, err |-> Error("mirador-core " \o signal \o " request failed", <<outcome>>)]
    ELSE IF Len(items) = 0
    THEN [items |-> <<>>, err |-> Error("mirador-core " \o signal \o " returned nothing", <<>>)]
    ELSE [items |-> items, err |-> NoErr]

ClientFetch(signal, outcome, items) ==
    IF outcome \in FetchFailures
    THEN [items |-> <<>>, err |-> Error("mirador-core " \o signal \o " request failed", <<outcome>>)]
    ELSE IF Len(items) = 0
    THEN [items |-> <<>>, err |-> Error("mirador-core " \o signal \o " returned nothing", <<>>)]
    ELSE [items |-> items, err |-> NoErr]

\* The responses of the client over every outcome of the request and every
\* item list of the pool
Responses(signal, pool) ==
    {ClientFetch(signal, outcome, items) : outcome \in {"ok"} \cup FetchFailures, items \in pool}

(***************************************************************************)
(* Pipeline.Investigate                                                    *)
(***************************************************************************)
\* FromProtoInvestigationRequest: the error text, "" when the request maps
FromProtoError(p) ==
    IF p.nil THEN "request is nil"
    ELSE IF ~p.TimeRange.present \/ p.TimeRange.Start = NilTimestamp \/ p.TimeRange.End = NilTimestamp
    THEN "time_range.start and time_range.end are required"
    ELSE IF p.TimeRange.Start = ZeroTime \/ p.TimeRange.End = ZeroTime
    THEN "time_range values must be set"
    ELSE ""

\* FromProtoInvestigationRequest: the domain request
FromProtoInvestigationRequest(p) ==
    [IncidentID |-> p.IncidentId, Symptoms |-> p.Symptoms,
     TimeRange |-> [Start |-> p.TimeRange.Start, End |-> p.TimeRange.End],
     AffectedServices |-> p.AffectedServices, AnomalyThreshold |-> p.AnomalyThreshold,
     TenantID |-> p.TenantId]

\* Investigate, line 136: the causality result overrides the root cause
OverrideApplies(causality, service) ==
    causality.SuggestedService # "" /\ ~EqualFold(causality.SuggestedService, service)

\* Investigate, lines 139-147: the synthetic causality event
CausalityEvent(causality, service, timeline) ==
    [Time |-> rootEventTime(causality.SuggestedService, timeline) - HalfSecond,
     Event |-> <<"Causality:", causality.SuggestedService, "precedes", service>>,
     Service |-> causality.SuggestedService, Severity |-> "medium",
     AnomalyScore |-> 0, DataSource |-> "traces"]

\* Investigate, line 153: fmt.Sprintf("corr-%d", time.Now().UnixNano())
CorrelationIDAt(now) == <<"corr-", now>>

\* Investigate, lines 110-162: the result assembled from the fetched signals.
\* sim is what SimilarIncidents returned, neighbors one iteration order of
\* neighborServices, now the value time.Now has during the assembly.
InvestigateResult(r, graph, m, l, sp, storeConfigured, sim, neighbors, now) ==
    LET service == NominalService(r)
        metricAnomalies == MetricDetect(m, r.AnomalyThreshold)
        logAnomalies == LogsDetect(l)
        traceAnomalies == TracesDetect(sp)
        anchors == buildAnchors(service, metricAnomalies, logAnomalies, traceAnomalies)
        timeline == buildTimeline(metricAnomalies, logAnomalies, traceAnomalies)
        confidence == computeConfidence(metricAnomalies, logAnomalies, traceAnomalies)
        causalityResult == Evaluate(service, timeline, graph)
        recommendations == fetchRecommendations(storeConfigured, sim, r, anchors, timeline)
        affected == uniqueStrings(uniqueStrings(<<service>> \o r.AffectedServices) \o neighbors)
        override == OverrideApplies(causalityResult, service)
        timeline2 == IF override
                     THEN Append(timeline, CausalityEvent(causalityResult, service, timeline))
                     ELSE timeline
    IN  [CorrelationID |-> CorrelationIDAt(now),
         IncidentID |-> r.IncidentID,
         RootCause |-> IF override
                       THEN [kind |-> "upstream influence", subject |-> causalityResult.SuggestedService,
                             selector |-> <<>>, object |-> service]
                       ELSE deriveRootCause(service, anchors),
         Confidence |-> calibrateConfidence(confidence, causalityResult.Score),
         AffectedServices |-> IF override
                              THEN uniqueStrings(Append(affected, causalityResult.SuggestedService))
                              ELSE affected,
         Recommendations |-> recommendations,
         RedAnchors |-> anchors,
         Timeline |-> appendTopologyEvents(timeline2, service, graph, now),
         CreatedAt |-> now]

\* Investigate failing when the write of the result fails
InvestigateReturnsStoreError(res, persistErr) ==
    IF persistErr # NoErr
    THEN [result |-> NoResult, err |-> [op |-> "store correlation", cause |-> <<persistErr.op>>]]
    ELSE [result |-> res, err |-> NoErr]

\* Investigate, lines 164-170: what Investigate returns once the result is
\* assembled; persistErr is the error of StoreCorrelation, NoErr when the
\* write succeeded or no store is wired in.  The error is logged only.
InvestigateReturns(res, persistErr) == [result |-> res, err |-> NoErr]

\* RCAService.InvestigateIncident: the status code for a return of Investigate
StatusCode(err) == IF err # NoErr THEN "Internal" ELSE "OK"

\* the variables outside the InvestigateIncident call, at rest
IdIdle ==
    /\ assembledIDs = <<>>
SimIdle ==
    /\ similarTTL = 0
    /\ simCache = <<>>
    /\ simCalls = <<>>
ListIdle ==
    /\ listCfg = <<>>
    /\ listPages = <<>>
    /\ listToken = ""
ValkeyIdle ==
    /\ vkCfg = <<>>
    /\ vkServer = <<>>
    /\ vkCall = <<>>
    /\ vkSet = <<>>
GraphIdle ==
    /\ graphCalls = <<>>
FeedbackIdle ==
    /\ fbCfg = <<>>
    /\ fbCalls = <<>>
    /\ fbAnswer = <<>>
LatencyIdle ==
    /\ ltMaxSize = 0
    /\ ltSamples = <<>>
    /\ ltObserved = <<>>
    /\ ltProcs = <<>>
    /\ ltFailed = 0
    /\ ltLog = <<>>
    /\ ltDone = {}
PureIdle ==
    /\ pureIn = <<>>
    /\ pureOut = <<>>
RepoIdle ==
    /\ repoCfg = <<>>
    /\ repoCache = <<>>
    /\ repoCalls = <<>>
ConnIdle ==
    /\ connCfg = <<>>
    /\ connCtx = <<>>
    /\ connDeadlines = <<>>
MemIdle ==
    /\ memData = <<>>
    /\ memLock = <<>>
    /\ memProcs = <<>>
    /\ memFatal = FALSE
OthersIdle ==
    /\ IdIdle
    /\ SimIdle
    /\ ListIdle
    /\ ValkeyIdle
    /\ GraphIdle
    /\ FeedbackIdle
    /\ LatencyIdle
    /\ PureIdle
    /\ RepoIdle
    /\ ConnIdle
    /\ MemIdle

(***************************************************************************)
(* The state machine: one InvestigateIncident call                         *)
(***************************************************************************)
Init ==
    /\ weaviate \in {"none", "no-endpoint", "endpoint"}
    /\ pc = "idle"
    /\ req = NoRequest
    /\ serviceGraph = <<>>
    /\ graphErr = NoErr
    /\ metrics = <<>>
    /\ logs = <<>>
    /\ spans = <<>>
    /\ similar = NoSimilar
    /\ result = NoResult
    /\ invErr = NoErr
    /\ rpcCode = ""
    /\ storeCalls = <<>>
    /\ storeErr = NoErr
    /\ fetchErr = NoFetch
    /\ clock = ClockStart
    /\ OthersIdle

\* RCAService.InvestigateIncident up to the call of Investigate
InvestigateIncident ==
    /\ UNCHANGED otherVars
    /\ pc = "idle"
    /\ \E p \in ProtoRequests :
          IF FromProtoError(p) # ""
          THEN /\ rpcCode' = "InvalidArgument"
               /\ pc' = "done"
               /\ req' = req
          ELSE /\ req' = FromProtoInvestigationRequest(p)
               /\ pc' = "graph"
               /\ rpcCode' = rpcCode
    /\ UNCHANGED <<weaviate, serviceGraph, graphErr, metrics, logs, spans, similar, result,
                   invErr, storeCalls, storeErr, fetchErr, clock>>

\* Investigate, lines 92-95: the tolerant fetch
FetchServiceGraph ==
    /\ UNCHANGED otherVars
    /\ pc = "graph"
    /\ \E fetched \in Responses("service graph", EdgeListPool) :
          /\ serviceGraph' = fetched.items
          /\ graphErr' = fetched.err
    /\ pc' = "metrics"
    /\ UNCHANGED <<weaviate, req, metrics, logs, spans, similar, result, invErr, rpcCode,
                   storeCalls, storeErr, fetchErr, clock>>

\* A strict fetch failed: Investigate returns the wrapped error and
\* InvestigateIncident answers Internal.
Abort(op, err) ==
    /\ invErr' = Wrap(op, err)
    /\ rpcCode' = StatusCode(Wrap(op, err))
    /\ pc' = "done"

\* Investigate, lines 97-100
FetchMetricSeries ==
    /\ UNCHANGED otherVars
    /\ pc = "metrics"
    /\ \E fetched \in Responses("metrics", MetricSeriesPool \cup {<<>>}) :
          /\ fetchErr' = [signal |-> "metrics", err |-> fetched.err]
          /\ IF fetched.err # NoErr
             THEN Abort("fetch metrics", fetched.err) /\ metrics' = metrics
             ELSE metrics' = fetched.items /\ pc' = "logs" /\ UNCHANGED <<invErr, rpcCode>>
    /\ UNCHANGED <<weaviate, req, serviceGraph, graphErr, logs, spans, similar, result,
                   storeCalls, storeErr, clock>>

\* Investigate, lines 101-104
FetchLogEntries ==
    /\ UNCHANGED otherVars
    /\ pc = "logs"
    /\ \E fetched \in Responses("logs", LogEntriesPool \cup {<<>>}) :
          /\ fetchErr' = [signal |-> "logs", err |-> fetched.err]
          /\ IF fetched.err # NoErr
             THEN Abort("fetch logs", fetched.err) /\ logs' = logs
             ELSE logs' = fetched.items /\ pc' = "traces" /\ UNCHANGED <<invErr, rpcCode>>
    /\ UNCHANGED <<weaviate, req, serviceGraph, graphErr, metrics, spans, similar, result,
                   storeCalls, storeErr, clock>>

\* Investigate, lines 105-108
FetchTraceSpans ==
    /\ UNCHANGED otherVars
    /\ pc = "traces"
    /\ \E fetched \in Responses("traces", SpanListPool \cup {<<>>}) :
          /\ fetchErr' = [signal |-> "traces", err |-> fetched.err]
          /\ IF fetched.err # NoErr
             THEN Abort("fetch traces", fetched.err) /\ spans' = spans
             ELSE spans' = fetched.items /\ pc' = "similar" /\ UNCHANGED <<invErr, rpcCode>>
    /\ UNCHANGED <<weaviate, req, serviceGraph, graphErr, metrics, logs, similar, result,
                   storeCalls, storeErr, clock>>

\* fetchRecommendations, lines 301-305: the call of SimilarIncidents, made
\* only when a store is wired in
CallSimilarIncidents ==
    /\ UNCHANGED otherVars
    /\ pc = "similar"
    /\ \/ /\ weaviate = "none"
          /\ similar' = NoSimilar
       \/ /\ weaviate = "no-endpoint"
          /\ similar' = [failed |-> FALSE]
                        @@ SimilarIncidents("no-endpoint", <<>>, req.Symptoms, SimilarLimit)
       \/ /\ weaviate = "endpoint"
          /\ \E outcome \in {"bad-request", "unreachable", "non-200", "undecodable"} :
                similar' = [failed |-> outcome # "bad-request"]
                           @@ SimilarIncidents(outcome, <<>>, req.Symptoms, SimilarLimit)
       \/ /\ weaviate = "endpoint"
          /\ \E records \in SimilarRecordsPool :
                similar' = [failed |-> FALSE]
                           @@ SimilarIncidents("ok", records, req.Symptoms, SimilarLimit)
    /\ pc' = "assemble"
    /\ UNCHANGED <<weaviate, req, serviceGraph, graphErr, metrics, logs, spans, result,
                   invErr, rpcCode, storeCalls, storeErr, fetchErr, clock>>

\* Investigate, lines 110-162 and, with no store, the return of line 170
Assemble ==
    /\ UNCHANGED otherVars
    /\ pc = "assemble"
    /\ \E neighbors \in neighborServices(serviceGraph, NominalService(req)) :
          LET assembled == InvestigateResult(req, serviceGraph, metrics, logs, spans,
                                             weaviate # "none", similar, neighbors, clock)
              returned == InvestigateReturns(assembled, NoErr)
          IN  IF weaviate = "none"
              THEN /\ result' = returned.result
                   /\ invErr' = returned.err
                   /\ rpcCode' = StatusCode(returned.err)
                   /\ pc' = "done"
              ELSE /\ result' = assembled
                   /\ pc' = "store"
                   /\ UNCHANGED <<invErr, rpcCode>>
    /\ UNCHANGED <<weaviate, req, serviceGraph, graphErr, metrics, logs, spans, similar,
                   storeCalls, storeErr, fetchErr, clock>>

\* Investigate, lines 164-170: the write of the result, whose failure is
\* logged and ignored.  Without an endpoint StoreCorrelation does nothing
\* and succeeds; with one, "rejected" stands for each of its failures (the
\* request cannot be sent, or the store answers outside 2xx).
StoreCorrelation ==
    /\ UNCHANGED otherVars
    /\ pc = "store"
    /\ storeCalls' = Append(storeCalls, [tenantID |-> req.TenantID, correlation |-> result])
    /\ \E outcome \in IF weaviate = "no-endpoint" THEN {"ok"} ELSE {"ok", "rejected"} :
          LET persistErr == IF outcome = "ok" THEN NoErr
                            ELSE Error("weaviate store correlation failed", <<outcome>>)
              returned == InvestigateReturns(result, persistErr)
          IN  /\ storeErr' = persistErr
              /\ result' = returned.result
              /\ invErr' = returned.err
              /\ rpcCode' = StatusCode(returned.err)
    /\ pc' = "done"
    /\ UNCHANGED <<weaviate, req, serviceGraph, graphErr, metrics, logs, spans, similar,
                   fetchErr, clock>>

Next ==
    \/ InvestigateIncident
    \/ FetchServiceGraph
    \/ FetchMetricSeries
    \/ FetchLogEntries
    \/ FetchTraceSpans
    \/ CallSimilarIncidents
    \/ Assemble
    \/ StoreCorrelation

Spec == Init /\ [][Next]_vars

(***************************************************************************)
(* State functions the properties read                                     *)
(***************************************************************************)
\* the three strict fetches of the call succeeded
StrictFetchesSucceeded == fetchErr = [signal |-> "traces", err |-> NoErr]

\* Investigate has assembled its result
Assembled == pc \in {"store", "done"} /\ StrictFetchesSucceeded

\* Investigate has returned its result
Returned == pc = "done" /\ StrictFetchesSucceeded

MetricAnomalies == MetricDetect(metrics, req.AnomalyThreshold)
LogAnomalies == LogsDetect(logs)
TraceAnomalies == TracesDetect(spans)
AnomalyTimeline == buildTimeline(MetricAnomalies, LogAnomalies, TraceAnomalies)

IsTopologyEvent(event) == event.Event[1] \in {"Service graph:", "Service graph: upstream"}
IsCausalityEvent(event) == event.Event[1] = "Causality:"

(***************************************************************************)
(* Error handling of Investigate                                           *)
(***************************************************************************)
\* C1: when FetchMetricSeries, FetchLogEntries or FetchTraceSpans returns an
\* error (the error for an empty response included), Investigate is over,
\* its error names the failed fetch and wraps the client's error, and no
\* StoreCorrelation call was made.
C1_StrictFetchErrorAborts ==
    fetchErr.err # NoErr =>
        /\ pc = "done"
        /\ invErr = [op |-> "fetch " \o fetchErr.signal,
                     cause |-> <<fetchErr.err.op>> \o fetchErr.err.cause]
        /\ result = NoResult
        /\ storeCalls = <<>>

\* the log fetch answered with an empty list while a store is configured
C1_EmptyLogsWithStore ==
    /\ fetchErr = [signal |-> "logs", err |-> Error("mirador-core logs returned nothing", <<>>)]
    /\ weaviate = "endpoint"
    /\ pc = "done"

C3_StoredOnceAndReturned ==
    /\ pc # "done" => storeCalls = <<>>
    /\ pc = "store" =>
          \E neighbors \in neighborServices(serviceGraph, NominalService(req)) :
              result = InvestigateResult(req, serviceGraph, metrics, logs, spans, TRUE,
                                         similar, neighbors, clock)
    /\ (Returned /\ weaviate # "none") =>
          /\ Len(storeCalls) = 1
          /\ storeCalls[1].tenantID = req.TenantID
          /\ storeCalls[1].correlation = result
          /\ invErr = NoErr
          /\ rpcCode = "OK"

\* a result returned although its write to the store failed
C3_ReturnedAfterFailedWrite ==
    /\ Returned
    /\ weaviate = "endpoint"
    /\ storeErr # NoErr
    /\ Len(storeCalls) = 1
    /\ rpcCode = "OK"

(***************************************************************************)
(* Invariants of the result                                                *)
(***************************************************************************)
\* C4: every result of Investigate has at most ten timeline events, the
\* causality event and the topology events counted with the anomaly events.
C4_TimelineAtMostTen ==
    Assembled => Len(result.Timeline) <= MaxTimeline

\* C5: the timeline of every result of Investigate is non-decreasing in
\* time, whatever the anomalies, the edges of the service graph (and the
\* letter case of their service names) and the outcome of the causality
\* evaluation.
C5_TimelineNonDecreasing ==
    Assembled =>
        \A k \in 1..(Len(result.Timeline) - 1) :
            result.Timeline[k].Time <= result.Timeline[k + 1].Time

\* rootTime of the nominal service: the time of its first timeline event,
\* or of the first event of the timeline if it has none
NominalRootTime ==
    IF rootEventTime(NominalService(req), AnomalyTimeline) = ZeroTime
    THEN AnomalyTimeline[1].Time
    ELSE rootEventTime(NominalService(req), AnomalyTimeline)

\* C34: when the causality override applies, the causality event of the
\* result is timestamped exactly 500 ms before rootTime, the time of the
\* nominal service's earliest timeline event, or of the timeline's first
\* event if the nominal service has none.
C34_CausalityEventHalfSecondBeforeRoot ==
    ( /\ Assembled
      /\ OverrideApplies(Evaluate(NominalService(req), AnomalyTimeline, serviceGraph),
                         NominalService(req)) )
    => \E k \in 1..Len(result.Timeline) :
          /\ IsCausalityEvent(result.Timeline[k])
          /\ result.Timeline[k].Time = NominalRootTime - HalfSecond

(***************************************************************************)
(* Root cause and confidence                                               *)
(***************************************************************************)
\* C6: when the nominal service is checkout, checkout has a trace span of
\* status error and the only edge of the service graph is checkout ->
\* payments, the root cause of the result names payments through the
\* causality override.
C6_CheckoutScenarioNamesPayments ==
    ( /\ Assembled
      /\ NominalService(req) = "checkout"
      /\ \E k \in 1..Len(spans) : spans[k].Service = "checkout" /\ spans[k].Status = "error"
      /\ Len(serviceGraph) = 1
      /\ serviceGraph[1].Source = "checkout"
      /\ serviceGraph[1].Target = "payments" )
    => /\ result.RootCause.kind = "upstream influence"
       /\ result.RootCause.subject = "payments"

\* no extractor reported an anomaly
NoAnomalies == MetricAnomalies = <<>> /\ LogAnomalies = <<>> /\ TraceAnomalies = <<>>

\* C7: when none of the three extractors reports an anomaly, the confidence
\* of the result is exactly 0, whatever the service graph holds.
C7_NoAnomaliesZeroConfidence ==
    (Assembled /\ NoAnomalies) => result.Confidence = 0

\* a result without anomalies for a service that has an upstream edge with a
\* positive error rate
C7_NoAnomaliesWithFailingUpstream ==
    /\ Assembled
    /\ NoAnomalies
    /\ \E k \in 1..Len(serviceGraph) :
          /\ EqualFold(serviceGraph[k].Target, NominalService(req))
          /\ serviceGraph[k].ErrorRate > 0

(***************************************************************************)
(* Recommendations                                                         *)
(***************************************************************************)
\* the recommendations of the rule engine, or the default pair when the
\* rules yield none
RuleOrDefault ==
    LET recs == Recommend(RulePack, req, buildAnchors(NominalService(req), MetricAnomalies,
                                                      LogAnomalies, TraceAnomalies),
                          AnomalyTimeline)
    IN  IF Len(recs) > 0 THEN recs
        ELSE <<"Review recent deployments for regressions",
               "Check upstream dependencies for correlated errors">>

\* C8 as stated: with a store configured, if SimilarIncidents returns any
\* incident with a non-empty recommendation list, the recommendations of
\* the result are those of the first returned incident; otherwise they are
\* the rule engine's, or the default pair when the rules yield none.
C8_AnyIncidentWithRecommendations ==
    (Assembled /\ weaviate # "none") =>
        IF /\ similar.err = NoErr
           /\ \E k \in 1..Len(similar.results) : Len(similar.results[k].Recommendations) > 0
        THEN result.Recommendations = similar.results[1].Recommendations
        ELSE result.Recommendations = RuleOrDefault

\* C8 amended: with a store configured, if the first incident SimilarIncidents
\* returns has a non-empty recommendation list, the recommendations of the
\* result are exactly that list; otherwise they are the rule engine's, or
\* the default pair when the rules yield none.
C8_FirstIncidentDecides ==
    (Assembled /\ weaviate # "none") =>
        IF /\ similar.err = NoErr
           /\ Len(similar.results) > 0
           /\ Len(similar.results[1].Recommendations) > 0
        THEN result.Recommendations = similar.results[1].Recommendations
        ELSE result.Recommendations = RuleOrDefault

\* the store answered with a first incident without recommendations and a
\* second one with some, and the result fell back to the rules
C8_FirstIncidentWithoutRecommendations ==
    /\ Assembled
    /\ ~similar.failed
    /\ Len(similar.results) = 2
    /\ similar.results[1].Recommendations = <<>>
    /\ similar.results[2].Recommendations # <<>>
    /\ result.Recommendations = <<"Rule Rec">>

\* C9: when the request to the similarity store fails (the store is
\* unreachable, answers another status than 200, or its body cannot be
\* decoded), the recommendations of the result are the rule engine's, or
\* the default pair when the rules yield none.
C9_StoreFailureFallsBackToRules ==
    (Assembled /\ similar.failed) =>
        result.Recommendations = RuleOrDefault

(***************************************************************************)
(* Stored correlations                                                     *)
(***************************************************************************)
\* C10: every correlation handed to StoreCorrelation for an
\* InvestigateIncident request carries a non-empty tenant id and a
\* non-zero created-at.
C10_StoredWithTenantAndCreatedAt ==
    \A k \in 1..Len(storeCalls) :
        /\ storeCalls[k].tenantID # ""
        /\ storeCalls[k].correlation.CreatedAt # ZeroTime

(***************************************************************************)
(* Validation of the request                                               *)
(***************************************************************************)
\* a time range with both bounds set and start <= end
ValidTimeRange(tr) == tr.Start # ZeroTime /\ tr.End # ZeroTime /\ tr.Start <= tr.End

\* C11: InvestigateIncident answers InvalidArgument, before any upstream
\* fetch is issued, for every request whose time range is missing or
\* invalid: a call that got past the validation holds a range with both
\* bounds set and start <= end, and a rejected call has fetched nothing.
C11_InvalidTimeRangeRejected ==
    /\ (pc # "idle" /\ rpcCode # "InvalidArgument") => ValidTimeRange(req.TimeRange)
    /\ rpcCode = "InvalidArgument" =>
          /\ pc = "done"
          /\ serviceGraph = <<>> /\ graphErr = NoErr /\ fetchErr = NoFetch
          /\ metrics = <<>> /\ logs = <<>> /\ spans = <<>>

(***************************************************************************)
(* Correlation ids of the investigations of one process                    *)
(***************************************************************************)
\* no InvestigateIncident call is followed step by step
PipelineIdle ==
    /\ weaviate = "none"
    /\ pc = "idle"
    /\ req = NoRequest
    /\ serviceGraph = <<>>
    /\ graphErr = NoErr
    /\ metrics = <<>>
    /\ logs = <<>>
    /\ spans = <<>>
    /\ similar = NoSimilar
    /\ result = NoResult
    /\ invErr = NoErr
    /\ rpcCode = ""
    /\ storeCalls = <<>>
    /\ storeErr = NoErr
    /\ fetchErr = NoFetch

\* For each specification: the variables of the others, and their rest
outsideId == <<pipelineVars, simVars, listVars, vkVars, graphVars, feedbackVars, latencyVars, pureVars, repoVars, connVars, memVars>>
OutsideIdIdle ==
    /\ PipelineIdle
    /\ SimIdle
    /\ ListIdle
    /\ ValkeyIdle
    /\ GraphIdle
    /\ FeedbackIdle
    /\ LatencyIdle
    /\ PureIdle
    /\ RepoIdle
    /\ ConnIdle
    /\ MemIdle
outsideSim == <<pipelineVars, idVars, listVars, vkVars, graphVars, feedbackVars, latencyVars, pureVars, repoVars, connVars, memVars>>
OutsideSimIdle ==
    /\ PipelineIdle
    /\ IdIdle
    /\ ListIdle
    /\ ValkeyIdle
    /\ GraphIdle
    /\ FeedbackIdle
    /\ LatencyIdle
    /\ PureIdle
    /\ RepoIdle
    /\ ConnIdle
    /\ MemIdle
outsideList == <<pipelineVars, idVars, simVars, vkVars, graphVars, feedbackVars, latencyVars, pureVars, repoVars, connVars, memVars>>
OutsideListIdle ==
    /\ PipelineIdle
    /\ IdIdle
    /\ SimIdle
    /\ ValkeyIdle
    /\ GraphIdle
    /\ FeedbackIdle
    /\ LatencyIdle
    /\ PureIdle
    /\ RepoIdle
    /\ ConnIdle
    /\ MemIdle
outsideVk == <<pipelineVars, idVars, simVars, listVars, graphVars, feedbackVars, latencyVars, pureVars, repoVars, connVars, memVars>>
OutsideVkIdle ==
    /\ PipelineIdle
    /\ IdIdle
    /\ SimIdle
    /\ ListIdle
    /\ GraphIdle
    /\ FeedbackIdle
    /\ LatencyIdle
    /\ PureIdle
    /\ RepoIdle
    /\ ConnIdle
    /\ MemIdle
outsideGraph == <<pipelineVars, idVars, simVars, listVars, vkVars, feedbackVars, latencyVars, pureVars, repoVars, connVars, memVars>>
OutsideGraphIdle ==
    /\ PipelineIdle
    /\ IdIdle
    /\ SimIdle
    /\ ListIdle
    /\ ValkeyIdle
    /\ FeedbackIdle
    /\ LatencyIdle
    /\ PureIdle
    /\ RepoIdle
    /\ ConnIdle
    /\ MemIdle
outsideFeedback == <<pipelineVars, idVars, simVars, listVars, vkVars, graphVars, latencyVars, pureVars, repoVars, connVars, memVars>>
OutsideFeedbackIdle ==
    /\ PipelineIdle
    /\ IdIdle
    /\ SimIdle
    /\ ListIdle
    /\ ValkeyIdle
    /\ GraphIdle
    /\ LatencyIdle
    /\ PureIdle
    /\ RepoIdle
    /\ ConnIdle
    /\ MemIdle
outsideLatency == <<pipelineVars, idVars, simVars, listVars, vkVars, graphVars, feedbackVars, pureVars, repoVars, connVars, memVars>>
OutsideLatencyIdle ==
    /\ PipelineIdle
    /\ IdIdle
    /\ SimIdle
    /\ ListIdle
    /\ ValkeyIdle
    /\ GraphIdle
    /\ FeedbackIdle
    /\ PureIdle
    /\ RepoIdle
    /\ ConnIdle
    /\ MemIdle
outsidePure == <<pipelineVars, idVars, simVars, listVars, vkVars, graphVars, feedbackVars, latencyVars, repoVars, connVars, memVars>>
OutsidePureIdle ==
    /\ PipelineIdle
    /\ IdIdle
    /\ SimIdle
    /\ ListIdle
    /\ ValkeyIdle
    /\ GraphIdle
    /\ FeedbackIdle
    /\ LatencyIdle
    /\ RepoIdle
    /\ ConnIdle
    /\ MemIdle
outsideRepo == <<pipelineVars, idVars, simVars, listVars, vkVars, graphVars, feedbackVars, latencyVars, pureVars, connVars, memVars>>
OutsideRepoIdle ==
    /\ PipelineIdle
    /\ IdIdle
    /\ SimIdle
    /\ ListIdle
    /\ ValkeyIdle
    /\ GraphIdle
    /\ FeedbackIdle
    /\ LatencyIdle
    /\ PureIdle
    /\ ConnIdle
    /\ MemIdle
outsideConn == <<pipelineVars, idVars, simVars, listVars, vkVars, graphVars, feedbackVars, latencyVars, pureVars, repoVars, memVars>>
OutsideConnIdle ==
    /\ PipelineIdle
    /\ IdIdle
    /\ SimIdle
    /\ ListIdle
    /\ ValkeyIdle
    /\ GraphIdle
    /\ FeedbackIdle
    /\ LatencyIdle
    /\ PureIdle
    /\ RepoIdle
    /\ MemIdle
outsideMem == <<pipelineVars, idVars, simVars, listVars, vkVars, graphVars, feedbackVars, latencyVars, pureVars, repoVars, connVars>>
OutsideMemIdle ==
    /\ PipelineIdle
    /\ IdIdle
    /\ SimIdle
    /\ ListIdle
    /\ ValkeyIdle
    /\ GraphIdle
    /\ FeedbackIdle
    /\ LatencyIdle
    /\ PureIdle
    /\ RepoIdle
    /\ ConnIdle

IdInit ==
    /\ OutsideIdIdle
    /\ clock = ClockStart
    /\ IdIdle

\* the reading of time.Now().UnixNano() moves on by one step of the clock
Tick ==
    /\ clock < ClockStart + MaxTicks
    /\ clock' = clock + 1
    /\ UNCHANGED <<pipelineVars, otherVars>>

\* Investigate, lines 152-162, in one of the investigations that run in the
\* process, one after the other or concurrently: the result gets the id
\* made from the reading of the clock
AssembleResult ==
    /\ Len(assembledIDs) < MaxInvestigations
    /\ assembledIDs' = Append(assembledIDs, CorrelationIDAt(clock))
    /\ UNCHANGED <<outsideId, clock>>

IdNext ==
    \/ Tick
    \/ AssembleResult

IdSpec == IdInit /\ [][IdNext]_vars

\* C12: correlation ids are unique: no two investigations, concurrent ones
\* included, get the same correlation id, and an investigation assembled
\* later never gets a smaller id than an earlier one.
C12_CorrelationIDsUniqueAndMonotonic ==
    \A i, j \in 1..Len(assembledIDs) :
        i < j => /\ assembledIDs[i] # assembledIDs[j]
                 /\ assembledIDs[i][2] <= assembledIDs[j][2]

(***************************************************************************)
(* WeaviateRepo.SimilarIncidents with its cache                            *)
(***************************************************************************)
\* the symptoms of the model in the byte order sort.Strings compares by
SymptomOrder == <<"b:3:c", "c", "errors", "latency", "timeout">>
StringRank(x) == CHOOSE k \in 1..Len(SymptomOrder) : SymptomOrder[k] = x

\* the symptoms left in the order of the caller
KeepOrder(s) == s

\* sort.Strings
SortStrings(s) == SortByKey(s, [i \in 1..Len(s) |-> StringRank(s[i])])

RECURSIVE Join(_, _)
\* strings.Join
Join(elems, sep) ==
    IF Len(elems) = 0 THEN ""
    ELSE IF Len(elems) = 1 THEN elems[1]
    ELSE elems[1] \o sep \o Join(Tail(elems), sep)

\* cacheSimilarIncidentsKey
cacheSimilarIncidentsKey(tenantID, symptoms, limit) ==
    "weaviate:similar:" \o tenantID \o ":" \o ToString(limit) \o ":" \o Join(symptoms, "|")

\* json.Marshal of a result list: an array of objects, each the list of its
\* members (name, value) in the order of the struct's fields
MarshalResults(results) ==
    [i \in 1..Len(results) |->
        << <<"CorrelationID", results[i].CorrelationID>>,
           <<"Recommendations", results[i].Recommendations>> >>]

\* the value of the member of a JSON object
Member(object, name) ==
    object[CHOOSE k \in 1..Len(object) : object[k][1] = name][2]

\* json.Unmarshal into []models.CorrelationResult
UnmarshalResults(data) ==
    [i \in 1..Len(data) |->
        [CorrelationID |-> Member(data[i], "CorrelationID"),
         Recommendations |-> Member(data[i], "Recommendations")]]

ErrCacheMiss == Error("cache miss", <<>>)

\* a cache that never has the key
ProviderGetMiss(cache, key, now) == [data |-> <<>>, err |-> ErrCacheMiss]

\* cache.Provider.Get on a cache that answers: the value set for the key
\* until its TTL has elapsed, ErrCacheMiss otherwise
ProviderGet(cache, key, now) ==
    IF key \in DOMAIN cache /\ now < cache[key].expiresAt
    THEN [data |-> cache[key].value, err |-> NoErr]
    ELSE [data |-> <<>>, err |-> ErrCacheMiss]

\* cache.Provider.Set
ProviderSet(cache, key, value, ttl, now) ==
    (key :> [value |-> value, expiresAt |-> now + ttl]) @@ cache

\* Symptom lists of the callers
SymptomLists == {<<"latency", "errors">>, <<"errors", "latency">>}

\* similarTTL as NewWeaviateRepo keeps it (never negative), in ticks
SimilarTTLs == {0, 2}

\* What the store answers a SimilarIncidents request with
SimilarOutcomes == {"unreachable", "non-200", "undecodable", "ok"}

\* the repo of NewWeaviateRepo with an endpoint and a cache provider
SimilarInit ==
    /\ OutsideSimIdle
    /\ clock = ClockStart
    /\ similarTTL \in SimilarTTLs
    /\ simCache = <<>>
    /\ simCalls = <<>>

\* WeaviateRepo.SimilarIncidents, lines 259-368, for a repo with an endpoint
SimilarIncidentsCall ==
    /\ Len(simCalls) < MaxSimCalls
    /\ \E symptoms \in SymptomLists, outcome \in SimilarOutcomes, records \in SimilarRecordsPool :
          LET tenantID == "tenant-a"
              cacheKey == IF similarTTL > 0
                          THEN cacheSimilarIncidentsKey(tenantID, SortStrings(symptoms), SimilarLimit)
                          ELSE ""
              got      == ProviderGet(simCache, cacheKey, clock)
              hit      == similarTTL > 0 /\ got.err = NoErr
              fetched  == SimilarIncidents(outcome, IF outcome = "ok" THEN records ELSE <<>>,
                                           symptoms, SimilarLimit)
              store    == /\ outcome = "ok"
                          /\ similarTTL > 0 /\ cacheKey # "" /\ Len(fetched.results) > 0
              call     == [tenantID |-> tenantID, symptoms |-> symptoms, limit |-> SimilarLimit,
                           at |-> clock, key |-> cacheKey]
          IN  \/ /\ hit
                 \* one step for a cached answer, whatever the store would say
                 /\ outcome = "ok" /\ records = <<>>
                 /\ simCalls' = Append(simCalls,
                        call @@ [upstream |-> "none", stored |-> FALSE,
                                 results |-> UnmarshalResults(got.data), err |-> NoErr])
                 /\ simCache' = simCache
              \/ /\ ~hit
                 /\ outcome = "ok" \/ records = <<>>
                 /\ simCalls' = Append(simCalls,
                        call @@ [upstream |-> outcome, stored |-> store,
                                 results |-> fetched.results, err |-> fetched.err])
                 /\ simCache' = IF store
                                THEN ProviderSet(simCache, cacheKey,
                                                 MarshalResults(fetched.results), similarTTL, clock)
                                ELSE simCache
    /\ UNCHANGED <<outsideSim, clock, similarTTL>>

SimilarNext ==
    \/ Tick
    \/ SimilarIncidentsCall

SimilarSpec == SimilarInit /\ [][SimilarNext]_vars

\* s and t hold the same symptoms, each as often
IsPermutation(s, t) ==
    /\ Len(s) = Len(t)
    /\ \A x \in Range(s) \cup Range(t) :
          Cardinality({i \in 1..Len(s) : s[i] = x}) = Cardinality({i \in 1..Len(t) : t[i] = x})

\* call j asks for what call i asked, the symptoms in any order
SameQuery(i, j) ==
    /\ simCalls[i].tenantID = simCalls[j].tenantID
    /\ simCalls[i].limit = simCalls[j].limit
    /\ IsPermutation(simCalls[i].symptoms, simCalls[j].symptoms)

\* C13: for every tenant, limit and symptoms list, SimilarIncidents uses the
\* same cache key for every permutation of the symptoms; once a call has
\* cached a non-empty upstream result, a call with any permutation of the
\* symptoms within the TTL returns the identical payload without a further
\* upstream request.
C13_PermutationsShareCache ==
    \A i, j \in 1..Len(simCalls) :
        (i < j /\ SameQuery(i, j)) =>
            /\ simCalls[i].key = simCalls[j].key
            /\ (simCalls[i].stored /\ simCalls[j].at < simCalls[i].at + similarTTL) =>
                  /\ simCalls[j].upstream = "none"
                  /\ simCalls[j].err = NoErr
                  /\ simCalls[j].results = simCalls[i].results

\* a call found the result cached by an earlier call with the symptoms in
\* another order
C13_PermutedCallServedFromCache ==
    \E i, j \in 1..Len(simCalls) :
        /\ i < j /\ SameQuery(i, j)
        /\ simCalls[i].symptoms # simCalls[j].symptoms
        /\ simCalls[i].stored
        /\ simCalls[j].at < simCalls[i].at + similarTTL
        /\ simCalls[j].upstream = "none"
        /\ Len(simCalls[j].results) > 0

\* C14: SimilarIncidents returns no error when the upstream request fails,
\* answers non-200 or returns a body that cannot be decoded: it returns a
\* synthetic result set in which every correlation id begins with the
\* prefix "synthetic-".
C14_UpstreamFailureGivesSynthetic ==
    \A i \in 1..Len(simCalls) :
        simCalls[i].upstream \in {"unreachable", "non-200", "undecodable"} =>
            /\ simCalls[i].err = NoErr
            /\ Len(simCalls[i].results) > 0
            /\ \A k \in 1..Len(simCalls[i].results) :
                  simCalls[i].results[k].CorrelationID[1] = "synthetic-"

\* a failed request and an undecodable body have both been answered
C14_FailuresAnswered ==
    /\ \E i \in 1..Len(simCalls) : simCalls[i].upstream \in {"unreachable", "non-200"}
    /\ \E i \in 1..Len(simCalls) :
          /\ simCalls[i].upstream = "undecodable"
          /\ Len(simCalls[i].results) = SimilarLimit

(***************************************************************************)
(* ListCorrelations: the RPC and WeaviateRepo.ListCorrelations             *)
(***************************************************************************)
\* the limit ListCorrelations asks the store for
EffectivePageSize(pageSize) ==
    IF pageSize <= 0 \/ pageSize > MaxPageSize THEN DefaultPageSize ELSE pageSize

\* the offset read from a token, every token taken for the start
ParseOffsetIgnoringToken(token) == 0

\* strconv.Atoi on the page token; an empty token, one that is no decimal
\* number and a negative one all leave the offset at 0
ParseOffset(token) ==
    IF token # "" /\ \E v \in 0..(2 * MaxStored + DefaultPageSize) : ToString(v) = token
    THEN CHOOSE v \in 0..(2 * MaxStored + DefaultPageSize) : ToString(v) = token
    ELSE 0

\* The store's answer to the GraphQL query: of the matching records, newest
\* first, at most limit from the offset on
StoreQuery(store, limit, offset) ==
    IF offset >= Len(store) THEN <<>>
    ELSE SubSeq(store, offset + 1, Min(offset + limit, Len(store)))

\* syntheticCorrelationList
syntheticCorrelationList(lreq) ==
    [Correlations |-> << [CorrelationID |-> <<"synthetic-corr-", 1>>,
                         AffectedServices |-> << IF lreq.Service = "" THEN "synthetic-service"
                                                 ELSE lreq.Service >>] >>,
     NextPageToken |-> ""]

NoListResponse == [Correlations |-> <<>>, NextPageToken |-> ""]

\* WeaviateRepo.ListCorrelations for a repo with an endpoint: the limit and
\* offset it sent, the response and the error, for each outcome of its
\* request to the store
ListCorrelations(lreq, outcome, store) ==
    LET limit  == EffectivePageSize(lreq.PageSize)
        offset == ParseOffset(lreq.PageToken)
        sent   == [limit |-> limit, offset |-> offset]
    IN  CASE outcome \in {"unreachable", "non-200"} ->
               sent @@ [resp |-> syntheticCorrelationList(lreq), err |-> NoErr]
          [] outcome = "undecodable" ->
               sent @@ [resp |-> NoListResponse, err |-> Error("undecodable", <<>>)]
          [] OTHER ->
               LET correlations == StoreQuery(store, limit, offset)
               IN  sent @@ [resp |-> [Correlations |-> correlations,
                                      NextPageToken |->
                                          IF Len(correlations) = limit
                                          THEN ToString(offset + Len(correlations))
                                          ELSE ""],
                            err |-> NoErr]

\* RCAService.ListCorrelations: the status code and the response
RPCListCorrelations(repo, lreq, outcome, store) ==
    IF lreq = <<>>
    THEN [code |-> "InvalidArgument", limit |-> 0, offset |-> 0, resp |-> NoListResponse]
    ELSE IF repo = "none"
    THEN [code |-> "FailedPrecondition", limit |-> 0, offset |-> 0, resp |-> NoListResponse]
    ELSE LET got == ListCorrelations(lreq, outcome, store)
         IN  IF got.err # NoErr
             THEN [code |-> "Internal", limit |-> got.limit, offset |-> got.offset,
                   resp |-> NoListResponse]
             ELSE [code |-> "OK", limit |-> got.limit, offset |-> got.offset, resp |-> got.resp]

\* the matching records of the store, newest first
StoredCorrelations(n) == [i \in 1..n |-> [CorrelationID |-> <<"corr-", i>>,
                                          AffectedServices |-> <<"checkout">>]]

\* the page sizes clients ask for
PageSizes == {-1, 0, 1, 2, 3, MaxPageSize, MaxPageSize + 1, 150}

ListRequests ==
    {<<>>} \cup
    {[TenantID |-> "tenant-a", Service |-> "checkout", PageSize |-> ps, PageToken |-> ""] :
        ps \in PageSizes}

ListOutcomes == {"ok", "unreachable", "non-200", "undecodable"}

\* the longest walk: one page for each record and the empty last page
MaxPages == MaxStored + 1

ListInit ==
    /\ OutsideListIdle
    /\ clock = ClockStart
    /\ \E repo \in {"none", "endpoint"}, n \in 0..MaxStored, lreq \in ListRequests :
          listCfg = [repo |-> repo, store |-> StoredCorrelations(n), req |-> lreq]
    /\ listPages = <<>>
    /\ listToken = ""

\* the walk is over: an answer came without a token for a further page
WalkEnded == Len(listPages) > 0 /\ listToken = ""

\* the client sends its request with the token of the last answer
ListCorrelationsCall ==
    /\ ~WalkEnded
    /\ Len(listPages) < MaxPages
    /\ \E outcome \in ListOutcomes :
          LET lreq == IF listCfg.req = <<>> THEN <<>>
                      ELSE [listCfg.req EXCEPT !.PageToken = listToken]
              answer == RPCListCorrelations(listCfg.repo, lreq, outcome, listCfg.store)
          IN  /\ (lreq = <<>> \/ listCfg.repo = "none") => outcome = "ok"
              /\ listPages' = Append(listPages,
                     answer @@ [outcome |-> IF answer.code \in {"InvalidArgument", "FailedPrecondition"}
                                            THEN "none" ELSE outcome])
              /\ listToken' = answer.resp.NextPageToken
    /\ UNCHANGED <<outsideList, clock, listCfg>>

ListNext == ListCorrelationsCall

ListSpec == ListInit /\ [][ListNext]_vars

\* C15: when the history store is unreachable or answers with a non-200
\* status, ListCorrelations returns an error, which the RPC layer reports
\* as Internal, and returns no correlations.
C15_StoreFailureIsInternal ==
    \A k \in 1..Len(listPages) :
        listPages[k].outcome \in {"unreachable", "non-200"} =>
            /\ listPages[k].code = "Internal"
            /\ listPages[k].resp.Correlations = <<>>

\* C16: ListCorrelations uses an effective page size of 20 when the
\* requested page size is unset or not positive, and otherwise the
\* requested size clamped into [1, 100]: a request for more than 100 items
\* is served with a page size of 100.
C16_PageSizeClamped ==
    \A k \in 1..Len(listPages) :
        listPages[k].outcome # "none" =>
            listPages[k].limit = IF listCfg.req.PageSize <= 0 THEN 20
                                 ELSE Min(Max(listCfg.req.PageSize, 1), 100)

\* every request of the walk so far was answered by the store
AnsweredByStore == \A k \in 1..Len(listPages) : listPages[k].outcome = "ok"

RECURSIVE PagesJoined(_)
\* the correlations of the first k pages, one page after the other
PagesJoined(k) ==
    IF k = 0 THEN <<>> ELSE PagesJoined(k - 1) \o listPages[k].resp.Correlations

\* C17: for a store whose matching correlations do not change between
\* calls, following next_page_token from the empty token with the same
\* filters and page size returns consecutive, pairwise disjoint pages that
\* together contain every matching correlation exactly once; a page carries
\* a next token exactly when it is fully filled, the token is the decimal
\* offset of the following page, and the walk ends with an empty token.
C17_WalkCoversStoreOnce ==
    AnsweredByStore =>
        LET n == Len(listPages)
            walked == PagesJoined(n)
        IN  /\ Len(walked) <= Len(listCfg.store)
            /\ walked = SubSeq(listCfg.store, 1, Len(walked))
            /\ \A k \in 1..n :
                  /\ listPages[k].offset = Len(PagesJoined(k - 1))
                  /\ (listPages[k].resp.NextPageToken # "")
                        = (Len(listPages[k].resp.Correlations) = listPages[k].limit)
                  /\ listPages[k].resp.NextPageToken # "" =>
                        listPages[k].resp.NextPageToken = ToString(Len(PagesJoined(k)))
            /\ \A k, l \in 1..n :
                  k # l => Range(listPages[k].resp.Correlations)
                              \cap Range(listPages[l].resp.Correlations) = {}
            /\ WalkEnded => walked = listCfg.store
            /\ (~WalkEnded /\ n > 0) => Len(walked) < Len(listCfg.store) + listPages[n].limit

\* a walk of three pages or more has ended with every record seen
C17_WalkOfThreePagesEnded ==
    /\ AnsweredByStore
    /\ WalkEnded
    /\ Len(listPages) >= 3
    /\ Len(listCfg.store) = MaxStored
    /\ PagesJoined(Len(listPages)) = listCfg.store

(***************************************************************************)
(* ValkeyProvider: one client calling Get, Set, SetNX and Del on the key K *)
(***************************************************************************)
\* the ticks of the clock in a millisecond
TicksPerMs == 3

\* time.Duration.Milliseconds: whole milliseconds, the rest dropped
Milliseconds(ttl) == ttl \div TicksPerMs

\* a net.Error: kind is "timeout" (Timeout() holds), "temporary"
\* (Temporary() holds) or "refused" (neither holds)
NetError(kind) == Error("net.Error", <<kind>>)

\* every error taken for a transient one
RetryAlways(err) == TRUE

\* shouldRetry
shouldRetry(err) == err.op = "net.Error" /\ err.cause[1] \in {"timeout", "temporary"}

\* the number of attempts withConn allows
Retries(cfg) == IF cfg.MaxRetries <= 0 THEN 1 ELSE cfg.MaxRetries

\* The commands of the provider: PX is the argument of PX, NilTimestamp
\* when the command carries none
GetCommand == [name |-> "GET", value |-> "", PX |-> NilTimestamp, NX |-> FALSE]
SetCommand(value, ttl) ==
    [name |-> "SET", value |-> value,
     PX |-> IF ttl > 0 THEN Milliseconds(ttl) ELSE NilTimestamp, NX |-> FALSE]
SetNXCommand(value, ttl) ==
    [name |-> "SET", value |-> value,
     PX |-> IF ttl > 0 THEN Milliseconds(ttl) ELSE NilTimestamp, NX |-> TRUE]
DelCommand == [name |-> "DEL", value |-> "", PX |-> NilTimestamp, NX |-> FALSE]

NoKey == [present |-> FALSE, value |-> "", expiresAt |-> NilTimestamp]

\* the server holds a value for K that has not expired
Alive(server, now) ==
    server.present /\ (server.expiresAt = NilTimestamp \/ now < server.expiresAt)

\* The server executing a command on K: what it holds afterwards and its
\* reply as readReply returns it.  SET with PX 0 is answered with an error,
\* a key set with PX ms is gone once ms milliseconds have passed.
ServerApply(server, cmd, now) ==
    CASE cmd.name = "GET" ->
           [server |-> server,
            reply |-> IF Alive(server, now) THEN [typ |-> "$", data |-> server.value]
                      ELSE [typ |-> "_", data |-> ""],
            err |-> NoErr]
      [] cmd.name = "DEL" ->
           [server |-> NoKey, reply |-> [typ |-> ":", data |-> ""], err |-> NoErr]
      [] cmd.name = "SET" /\ cmd.PX = 0 ->
           [server |-> server, reply |-> [typ |-> "", data |-> ""],
            err |-> Error("ERR invalid expire time in 'set' command", <<>>)]
      [] cmd.name = "SET" /\ cmd.NX /\ Alive(server, now) ->
           [server |-> server, reply |-> [typ |-> "_", data |-> ""], err |-> NoErr]
      [] OTHER ->
           [server |-> [present |-> TRUE, value |-> cmd.value,
                        expiresAt |-> IF cmd.PX = NilTimestamp THEN NilTimestamp
                                      ELSE now + cmd.PX * TicksPerMs],
            reply |-> [typ |-> "+", data |-> "OK"], err |-> NoErr]

\* the command a call sends
CommandOf(call) ==
    CASE call.op = "Get" -> GetCommand
      [] call.op = "Set" -> SetCommand(call.value, call.ttl)
      [] call.op = "SetNX" -> SetNXCommand(call.value, call.ttl)
      [] OTHER -> DelCommand

\* What the function given to withConn makes of the answer to its command:
\* the error it returns and what it leaves in payload and ok
ReplyOf(op, answer) ==
    IF answer.err # NoErr THEN [err |-> answer.err, payload |-> "", ok |-> FALSE]
    ELSE CASE op = "Get" ->
                IF answer.reply.typ = "_"
                THEN [err |-> ErrCacheMiss, payload |-> "", ok |-> FALSE]
                ELSE IF answer.reply.typ = "$"
                THEN [err |-> NoErr, payload |-> answer.reply.data, ok |-> FALSE]
                ELSE [err |-> Error("unexpected valkey reply type", <<>>), payload |-> "", ok |-> FALSE]
           [] op = "Set" ->
                IF answer.reply.typ # "+" \/ answer.reply.data # "OK"
                THEN [err |-> Error("unexpected SET response", <<>>), payload |-> "", ok |-> FALSE]
                ELSE [err |-> NoErr, payload |-> "", ok |-> FALSE]
           [] op = "SetNX" ->
                IF answer.reply.typ = "+" THEN [err |-> NoErr, payload |-> "", ok |-> TRUE]
                ELSE IF answer.reply.typ = "_" THEN [err |-> NoErr, payload |-> "", ok |-> FALSE]
                ELSE [err |-> Error("unexpected SETNX response type", <<>>), payload |-> "", ok |-> FALSE]
           [] OTHER -> [err |-> NoErr, payload |-> "", ok |-> FALSE]

\* How an attempt of withConn can go:
\*   "dial-timeout"   dial timed out
\*   "dial-refused"   dial failed, the connection refused
\*   "auth-failed"    bootstrap: the server refused AUTH
\*   "error-reply"    the server answered the command with an error
\*   "reply-timeout"  the server executed the command, the read of its
\*                    reply timed out
\*   "served"         the server executed the command and its reply was read
AttemptOutcomes ==
    {"dial-timeout", "dial-refused", "auth-failed", "error-reply", "reply-timeout", "served"}

\* the calls of the client: Set with a TTL of a third of a millisecond, of
\* one millisecond and of one and two thirds, SetNX without expiry
ProviderCalls ==
    {[op |-> "Get", value |-> "", ttl |-> 0], [op |-> "Del", value |-> "", ttl |-> 0],
     [op |-> "SetNX", value |-> "v2", ttl |-> 0]}
    \cup {[op |-> "Set", value |-> "v1", ttl |-> t] : t \in {1, TicksPerMs, 2 * TicksPerMs - 1}}

NoSet == <<>>

\* no call made yet
NoCall ==
    [op |-> "", value |-> "", ttl |-> 0, status |-> "idle", attempts |-> <<>>, err |-> NoErr,
     payload |-> "", ok |-> FALSE, inserted |-> FALSE, existed |-> FALSE,
     calledAt |-> NilTimestamp, returnedAt |-> NilTimestamp]

\* a provider built for a reachable server
ValkeyInit ==
    /\ OutsideVkIdle
    /\ clock = ClockStart
    /\ \E r \in 0..MaxRetriesCfg : vkCfg = [MaxRetries |-> r]
    /\ vkServer \in {NoKey, [present |-> TRUE, value |-> "v0", expiresAt |-> NilTimestamp]}
    /\ vkCall = NoCall
    /\ vkSet = NoSet

\* the client calls Get, Set, SetNX or Del
ProviderCall ==
    /\ vkCall.status \in {"idle", "returned"}
    /\ \E c \in ProviderCalls :
          /\ vkCall' = c @@ [status |-> "running", attempts |-> <<>>, err |-> NoErr,
                             payload |-> "", ok |-> FALSE, inserted |-> FALSE,
                             existed |-> Alive(vkServer, clock),
                             calledAt |-> clock, returnedAt |-> NilTimestamp]
          /\ vkSet' = IF c.op = "Get" THEN vkSet ELSE NoSet
    /\ UNCHANGED <<outsideVk, clock, vkCfg, vkServer>>

\* withConn, lines 171-173: the context is done when an attempt would start
ContextDone ==
    /\ vkCall.status = "running"
    /\ vkCall' = [vkCall EXCEPT !.status = "returned", !.returnedAt = clock,
                                 !.err = Error("context canceled", <<>>)]
    /\ UNCHANGED <<outsideVk, clock, vkCfg, vkServer, vkSet>>

\* withConn, lines 174-205: one attempt (dial, bootstrap, the command) and
\* what the loop does with its error
ProviderAttempt ==
    /\ vkCall.status = "running"
    /\ \E outcome \in AttemptOutcomes :
          LET reached == outcome \in {"reply-timeout", "served"}
              answer  == ServerApply(vkServer, CommandOf(vkCall), clock)
              got     == CASE outcome = "dial-timeout" ->
                                [err |-> NetError("timeout"), payload |-> "", ok |-> FALSE]
                           [] outcome = "dial-refused" ->
                                [err |-> NetError("refused"), payload |-> "", ok |-> FALSE]
                           [] outcome = "auth-failed" ->
                                [err |-> Error("auth failed", <<>>), payload |-> "", ok |-> FALSE]
                           [] outcome = "error-reply" ->
                                [err |-> Error("LOADING", <<>>), payload |-> "", ok |-> FALSE]
                           [] outcome = "reply-timeout" ->
                                [err |-> NetError("timeout"), payload |-> "", ok |-> FALSE]
                           [] OTHER -> ReplyOf(vkCall.op, answer)
              attempts == Append(vkCall.attempts, [outcome |-> outcome, err |-> got.err])
              again    == /\ got.err # NoErr
                          /\ shouldRetry(got.err)
                          /\ Len(attempts) - 1 < Retries(vkCfg) - 1
              inserted == \/ vkCall.inserted
                          \/ /\ reached /\ vkCall.op = "SetNX"
                             /\ answer.reply.typ = "+"
          IN  /\ vkServer' = IF reached THEN answer.server ELSE vkServer
              /\ vkCall' = IF again
                            THEN [vkCall EXCEPT !.attempts = attempts, !.inserted = inserted]
                            ELSE [vkCall EXCEPT !.attempts = attempts, !.inserted = inserted,
                                                !.status = "returned", !.returnedAt = clock,
                                                !.err = got.err, !.payload = got.payload,
                                                !.ok = got.ok]
              /\ vkSet' = IF ~again /\ vkCall.op = "Set" /\ got.err = NoErr
                          THEN [value |-> vkCall.value, ttl |-> vkCall.ttl,
                                calledAt |-> vkCall.calledAt, returnedAt |-> clock]
                          ELSE vkSet
    /\ UNCHANGED <<outsideVk, clock, vkCfg>>

ValkeyNext ==
    \/ Tick
    \/ ProviderCall
    \/ ContextDone
    \/ ProviderAttempt

ValkeySpec == ValkeyInit /\ [][ValkeyNext]_vars

\* a Get has returned what the server answered, after a Set that returned nil
GetAfterSet ==
    /\ vkCall.status = "returned" /\ vkCall.op = "Get"
    /\ vkCall.err \in {NoErr, ErrCacheMiss}
    /\ vkSet # NoSet

\* C18: for any key K, value v and TTL T > 0: a Get(K) issued after
\* Set(K, v, T) and before T has elapsed returns v, provided no other Set or
\* delete of K intervenes, and a Get(K) issued after T has elapsed reports a
\* miss.  Here the Get has returned before T has elapsed since the Set was
\* called, or was called after T has elapsed since the Set returned.
C18_GetWithinTTLReturnsValue ==
    GetAfterSet =>
        /\ vkCall.returnedAt < vkSet.calledAt + vkSet.ttl =>
              (vkCall.err = NoErr /\ vkCall.payload = vkSet.value)
        /\ vkCall.calledAt > vkSet.returnedAt + vkSet.ttl =>
              vkCall.err = ErrCacheMiss

\* C19: for one cache call, ValkeyProvider makes at most max(1, MaxRetries)
\* connection attempts and starts a further attempt only after the previous
\* attempt failed with a transient (timeout or temporary) network error;
\* every other outcome, a cache miss, a server error reply and an
\* authentication failure included, is returned from the attempt that
\* produced it.
C19_BoundedRetriesOnTransientOnly ==
    vkCall.status # "idle" =>
        LET n == Len(vkCall.attempts)
            transient(k) == vkCall.attempts[k].outcome \in {"dial-timeout", "reply-timeout"}
        IN  /\ n <= Max(1, vkCfg.MaxRetries)
            /\ \A k \in 1..(n - 1) : transient(k)
            /\ (vkCall.status = "running" /\ n > 0) => transient(n)
            /\ (n > 0 /\ ~transient(n)) =>
                  /\ vkCall.status = "returned"
                  /\ vkCall.err = vkCall.attempts[n].err
            /\ (vkCall.status = "returned" /\ vkCall.err # Error("context canceled", <<>>)) =>
                  /\ n > 0
                  /\ vkCall.err = vkCall.attempts[n].err

\* a call was retried after a timeout and returned the cache miss, the
\* server's error or the refused authentication of its second attempt
C19_SecondAttemptReturned ==
    /\ vkCall.status = "returned"
    /\ Len(vkCall.attempts) = 2
    /\ vkCall.attempts[2].outcome \in {"served", "error-reply", "auth-failed"}
    /\ vkCall.err # NoErr

\* C20: SetNX(K, v, ttl) returns true exactly when this call inserted K (K
\* was absent and now holds v) and false exactly when K already existed and
\* was left untouched by this call, for every outcome of the provider's
\* retry loop.  Stated for the calls that return without an error.
C20_SetNXReportsInsertion ==
    (vkCall.status = "returned" /\ vkCall.op = "SetNX" /\ vkCall.err = NoErr) =>
        /\ vkCall.ok <=> vkCall.inserted
        /\ ~vkCall.ok <=> (vkCall.existed /\ ~vkCall.inserted)

(***************************************************************************)
(* MiradorCoreClient.FetchServiceGraph called directly                     *)
(***************************************************************************)
\* Edge lists the aggregator answers the service graph request with
GraphAnswers == {<<>>, <<Edge("checkout", "payments", 120, 0)>>,
                 <<Edge("payments", "checkout", 100, 5)>>}

\* a client of NewMiradorCoreClient with a base URL
GraphInit ==
    /\ OutsideGraphIdle
    /\ clock = ClockStart
    /\ graphCalls = <<>>

\* FetchServiceGraph, lines 205-245: one postJSON to the aggregator in every
\* call, the edges of the answer converted
FetchServiceGraphCall ==
    /\ Len(graphCalls) < MaxGraphCalls
    /\ \E tenantID \in {"tenant-a", "tenant-b"}, outcome \in {"ok"} \cup FetchFailures,
          items \in GraphAnswers :
          LET fetched == ClientFetch("service graph", outcome, items)
          IN  /\ outcome = "ok" \/ items = <<>>
              /\ graphCalls' = Append(graphCalls,
                     [tenantID |-> tenantID, start |-> 100, end |-> 130, at |-> clock,
                      requests |-> 1, edges |-> fetched.items, err |-> fetched.err])
    /\ UNCHANGED <<outsideGraph, clock>>

GraphNext ==
    \/ Tick
    \/ FetchServiceGraphCall

GraphSpec == GraphInit /\ [][GraphNext]_vars

\* C21: two FetchServiceGraph calls with the same tenant, start and end
\* made within the cache TTL issue exactly one upstream HTTP request
\* between them and return the same edge list.
C21_ServiceGraphCached ==
    \A i, j \in 1..Len(graphCalls) :
        ( /\ i < j
          /\ graphCalls[i].tenantID = graphCalls[j].tenantID
          /\ graphCalls[i].start = graphCalls[j].start
          /\ graphCalls[i].end = graphCalls[j].end
          /\ graphCalls[i].err = NoErr
          /\ graphCalls[j].at < graphCalls[i].at + ServiceGraphTTL ) =>
            /\ graphCalls[i].requests + graphCalls[j].requests = 1
            /\ graphCalls[j].edges = graphCalls[i].edges

(***************************************************************************)
(* RCAService.SubmitFeedback                                               *)
(***************************************************************************)
\* every feedback request taken as it comes
NoFeedbackError(p) == ""

\* FromProtoFeedbackRequest: the error text, "" when the request maps
FromProtoFeedbackError(p) ==
    IF p.nil THEN "request is nil"
    ELSE IF p.CorrelationId = "" THEN "correlation_id is required"
    ELSE ""

\* FromProtoFeedbackRequest: the domain feedback of a request that maps
FromProtoFeedbackRequest(p, now) ==
    [TenantID |-> p.TenantId, CorrelationID |-> p.CorrelationId, Correct |-> p.Correct,
     Notes |-> p.Notes, SubmittedAt |-> now]

\* WeaviateRepo.StoreFeedback: the error for an outcome of its write
\*   "ok"           the store answered 2xx (or the repo has no endpoint)
\*   "unreachable"  httpClient.Do failed
\*   "rejected"     the store answered with another status
StoreFeedback(outcome) ==
    CASE outcome = "ok" -> NoErr
      [] outcome = "unreachable" -> Error("unreachable", <<>>)
      [] OTHER -> Error("store feedback failed", <<>>)

NoAck == [CorrelationId |-> "", Accepted |-> FALSE]
NoAnswer == <<>>

FeedbackRequests ==
    {[nil |-> TRUE, TenantId |-> "", CorrelationId |-> "", Correct |-> FALSE, Notes |-> ""]}
    \cup [nil : {FALSE}, TenantId : {"", "tenant-a"}, CorrelationId : {"", "corr-1"},
          Correct : BOOLEAN, Notes : {"", "wrong service", "right"}]

\* NewRCAService with or without a history repository, and the request
FeedbackInit ==
    /\ OutsideFeedbackIdle
    /\ clock = ClockStart
    /\ \E repo \in {"none", "store"}, p \in FeedbackRequests : fbCfg = [repo |-> repo, req |-> p]
    /\ fbCalls = <<>>
    /\ fbAnswer = NoAnswer

\* RCAService.SubmitFeedback, lines 310-329
SubmitFeedback ==
    /\ fbAnswer = NoAnswer
    /\ LET p == fbCfg.req
       IN  \/ /\ p.nil
              /\ fbAnswer' = [code |-> "InvalidArgument", ack |-> NoAck, storeErr |-> NoErr]
              /\ fbCalls' = fbCalls
           \/ /\ ~p.nil /\ fbCfg.repo = "none"
              /\ fbAnswer' = [code |-> "FailedPrecondition", ack |-> NoAck, storeErr |-> NoErr]
              /\ fbCalls' = fbCalls
           \/ /\ ~p.nil /\ fbCfg.repo # "none" /\ FromProtoFeedbackError(p) # ""
              /\ fbAnswer' = [code |-> "InvalidArgument", ack |-> NoAck, storeErr |-> NoErr]
              /\ fbCalls' = fbCalls
           \/ /\ ~p.nil /\ fbCfg.repo # "none" /\ FromProtoFeedbackError(p) = ""
              /\ \E outcome \in {"ok", "unreachable", "rejected"} :
                    LET feedback == FromProtoFeedbackRequest(p, clock)
                        err == StoreFeedback(outcome)
                    IN  /\ fbCalls' = Append(fbCalls, feedback)
                        /\ fbAnswer' =
                              IF err # NoErr
                              THEN [code |-> "Internal", ack |-> NoAck, storeErr |-> err]
                              ELSE [code |-> "OK",
                                    ack |-> [CorrelationId |-> feedback.CorrelationID,
                                             Accepted |-> TRUE],
                                    storeErr |-> NoErr]
    /\ UNCHANGED <<outsideFeedback, clock, fbCfg>>

FeedbackNext == SubmitFeedback

FeedbackSpec == FeedbackInit /\ [][FeedbackNext]_vars

\* SubmitFeedback has answered a request on a service with a store
FeedbackAnswered == fbAnswer # NoAnswer /\ fbCfg.repo = "store" /\ ~fbCfg.req.nil

\* C22 as stated: with a store configured, SubmitFeedback with an empty
\* correlation id answers InvalidArgument and makes no store write, and
\* SubmitFeedback with a non-empty correlation id makes exactly one
\* StoreFeedback call and answers {correlation_id, accepted=true}.
C22_FeedbackAlwaysAccepted ==
    FeedbackAnswered =>
        /\ fbCfg.req.CorrelationId = "" =>
              (fbAnswer.code = "InvalidArgument" /\ fbCalls = <<>>)
        /\ fbCfg.req.CorrelationId # "" =>
              /\ Len(fbCalls) = 1
              /\ fbAnswer.code = "OK"
              /\ fbAnswer.ack = [CorrelationId |-> fbCfg.req.CorrelationId, Accepted |-> TRUE]

\* C22: with a store configured, SubmitFeedback with an empty correlation
\* id answers InvalidArgument and makes no store write; with a non-empty
\* correlation id it makes exactly one StoreFeedback call, for the feedback
\* of the request, and answers {correlation_id, accepted=true} when that
\* call succeeds and Internal, without an acknowledgement, when it fails.
C22_FeedbackStoredOnce ==
    FeedbackAnswered =>
        /\ fbCfg.req.CorrelationId = "" =>
              (fbAnswer.code = "InvalidArgument" /\ fbCalls = <<>>)
        /\ fbCfg.req.CorrelationId # "" =>
              /\ Len(fbCalls) = 1
              /\ fbCalls[1].CorrelationID = fbCfg.req.CorrelationId
              /\ fbCalls[1].TenantID = fbCfg.req.TenantId
              /\ fbAnswer.storeErr = NoErr =>
                    /\ fbAnswer.code = "OK"
                    /\ fbAnswer.ack = [CorrelationId |-> fbCfg.req.CorrelationId,
                                       Accepted |-> TRUE]
              /\ fbAnswer.storeErr # NoErr =>
                    (fbAnswer.code = "Internal" /\ fbAnswer.ack = NoAck)

\* feedback with a correlation id and notes was stored and acknowledged
C22_FeedbackAccepted ==
    /\ FeedbackAnswered
    /\ fbCfg.req.CorrelationId # "" /\ fbCfg.req.Notes # ""
    /\ Len(fbCalls) = 1
    /\ fbAnswer.ack.Accepted

(***************************************************************************)
(* utils.LatencyTracker                                                    *)
(***************************************************************************)
DefaultTrackerSize == 512

\* NewLatencyTracker: the capacity of the tracker
NewLatencyTracker(maxSize) == IF maxSize <= 0 THEN DefaultTrackerSize ELSE maxSize

\* an Observe that cuts the slice without moving the samples
ObserveKeepingOldest(samples, maxSize, d) ==
    LET appended == Append(samples, d)
    IN  IF Len(appended) > maxSize THEN SubSeq(appended, 1, maxSize) ELSE appended

\* LatencyTracker.Observe: append, then copy(samples[0:], samples[1:]) and
\* cut to maxSize when the slice has outgrown it
Observe(samples, maxSize, d) ==
    LET appended == Append(samples, d)
        copied == [i \in 1..Len(appended) |->
                      IF i < Len(appended) THEN appended[i + 1] ELSE appended[i]]
    IN  IF Len(appended) > maxSize THEN SubSeq(copied, 1, maxSize) ELSE appended

\* LatencyTracker.Count
Count(samples) == Len(samples)

\* LatencyTracker.min and LatencyTracker.max
TrackerMin(samples) ==
    IF Len(samples) = 0 THEN 0
    ELSE CHOOSE m \in {samples[i] : i \in 1..Len(samples)} :
             \A i \in 1..Len(samples) : m <= samples[i]
TrackerMax(samples) ==
    IF Len(samples) = 0 THEN 0
    ELSE CHOOSE m \in {samples[i] : i \in 1..Len(samples)} :
             \A i \in 1..Len(samples) : m >= samples[i]

\* LatencyTracker.Percentile for a whole percentage p: the sample at index
\* int(p/100 * (len-1)) of the sorted copy
Percentile(samples, p) ==
    IF Len(samples) = 0 THEN 0
    ELSE IF p <= 0 THEN TrackerMin(samples)
    ELSE IF p >= 100 THEN TrackerMax(samples)
    ELSE LET sorted == SortByKey(samples, samples)
             index == (p * (Len(sorted) - 1)) \div 100
         IN  sorted[index + 1]

MaxObserve == 5
TrackerSizes == {-1, 0, 1, 2, 3}
Durations == {1, 2, 3}

\* NewLatencyTracker(maxSize)
TrackerInit ==
    /\ OutsideLatencyIdle
    /\ clock = ClockStart
    /\ \E maxSize \in TrackerSizes : ltMaxSize = NewLatencyTracker(maxSize)
    /\ ltSamples = <<>>
    /\ ltObserved = <<>>
    /\ ltProcs = <<>>
    /\ ltFailed = 0
    /\ ltLog = <<>>
    /\ ltDone = {}

\* one call of LatencyTracker.Observe
ObserveCall ==
    /\ Len(ltObserved) < MaxObserve
    /\ \E d \in Durations :
          /\ ltSamples' = Observe(ltSamples, ltMaxSize, d)
          /\ ltObserved' = Append(ltObserved, d)
    /\ UNCHANGED <<outsideLatency, clock, ltMaxSize, ltProcs, ltFailed, ltLog, ltDone>>

\* the percentages asked for: the two ends and three in between
Percentages == {0, 20, 40, 95, 100}

\* one call of LatencyTracker.Percentile, lines 65-90
PercentileCall ==
    /\ ltLog = <<>>
    /\ \E p \in Percentages :
          ltLog' = <<[p |-> p, samples |-> ltSamples, value |-> Percentile(ltSamples, p)]>>
    /\ UNCHANGED <<outsideLatency, clock, ltMaxSize, ltSamples, ltObserved, ltProcs, ltFailed, ltDone>>

TrackerNext ==
    \/ ObserveCall
    \/ PercentileCall

TrackerSpec == TrackerInit /\ [][TrackerNext]_vars

\* the last n elements of a sequence
Latest(s, n) == SubSeq(s, Len(s) - n + 1, Len(s))

\* C24: after any sequence of k Observe calls, a LatencyTracker of capacity
\* N holds exactly the min(k, N) most recently observed samples, in
\* observation order.
C24_TrackerHoldsLatest ==
    ltSamples = Latest(ltObserved, Min(Len(ltObserved), ltMaxSize))

\* a tracker of capacity 3 has dropped its two oldest samples, which
\* differed from the ones it holds
C24_OldestDropped ==
    /\ ltMaxSize = 3
    /\ Len(ltObserved) = 5
    /\ Len(ltSamples) = 3
    /\ ltObserved[1] # ltSamples[1]
    /\ ltObserved[2] # ltSamples[2]

(***************************************************************************)
(* RCAService.InvestigateIncident: the latency log                         *)
(***************************************************************************)
ServiceTrackerSize == 1024
LogEvery == 20
MaxHandled == 21
MaxFailed == 1

\* the goroutines serving InvestigateIncident
Handlers == {1, 2}
\* time.Since(start) of an investigation, in ticks
InvestigationDuration == 3

HandlerIdle == [pc |-> "idle", n |-> 0, count |-> 0]

\* a condition that logs on every completion
LogsAlways(count) == TRUE

\* handlers.go:260: count >= 20 && count%20 == 0
LogsP95(count) == count >= LogEvery /\ count % LogEvery = 0

\* NewRCAService: latencies = NewLatencyTracker(1024)
LatencyInit ==
    /\ OutsideLatencyIdle
    /\ clock = ClockStart
    /\ ltMaxSize = NewLatencyTracker(ServiceTrackerSize)
    /\ ltSamples = <<>>
    /\ ltObserved = <<>>
    /\ ltProcs = [h \in Handlers |-> HandlerIdle]
    /\ ltFailed = 0
    /\ ltLog = <<>>
    /\ ltDone = {}

Handled == Len(ltObserved) + ltFailed

\* InvestigateIncident, lines 236-256: the request is rejected or the
\* pipeline fails; the handler returns without touching the tracker
InvestigateFails(h) ==
    /\ ltProcs[h].pc = "idle"
    /\ Handled < MaxHandled
    /\ ltFailed < MaxFailed
    /\ \E code \in {"InvalidArgument", "FailedPrecondition", "Internal"} : ltFailed' = ltFailed + 1
    /\ UNCHANGED <<outsideLatency, clock, ltMaxSize, ltSamples, ltObserved, ltProcs, ltLog, ltDone>>

\* InvestigateIncident, lines 250-258: the pipeline returns a result and
\* the handler observes its duration (one critical section of the tracker)
InvestigateObserves(h) ==
    /\ ltProcs[h].pc = "idle"
    /\ Handled < MaxHandled
    /\ ltSamples' = Observe(ltSamples, ltMaxSize, InvestigationDuration)
    /\ ltObserved' = Append(ltObserved, InvestigationDuration)
    /\ ltProcs' = [ltProcs EXCEPT ![h] = [pc |-> "count", n |-> Len(ltObserved) + 1, count |-> 0]]
    /\ UNCHANGED <<outsideLatency, clock, ltMaxSize, ltFailed, ltLog, ltDone>>

\* InvestigateIncident, line 260: the handler reads Count (a second
\* critical section) and returns unless the count is a multiple of 20
InvestigateCounts(h) ==
    /\ ltProcs[h].pc = "count"
    /\ LET count == Count(ltSamples)
       IN  IF LogsP95(count)
           THEN /\ ltProcs' = [ltProcs EXCEPT ![h].pc = "p95", ![h].count = count]
                /\ ltDone' = ltDone
           ELSE /\ ltProcs' = [ltProcs EXCEPT ![h] = HandlerIdle]
                /\ ltDone' = ltDone \cup {[n |-> ltProcs[h].n, logged |-> FALSE]}
    /\ UNCHANGED <<outsideLatency, clock, ltMaxSize, ltSamples, ltObserved, ltFailed, ltLog>>

\* InvestigateIncident, lines 261-265: the handler reads Percentile(95) (a
\* third critical section), logs it and returns
InvestigateLogs(h) ==
    /\ ltProcs[h].pc = "p95"
    /\ ltLog' = Append(ltLog, [p95 |-> Percentile(ltSamples, 95), samples |-> ltProcs[h].count])
    /\ ltDone' = ltDone \cup {[n |-> ltProcs[h].n, logged |-> TRUE]}
    /\ ltProcs' = [ltProcs EXCEPT ![h] = HandlerIdle]
    /\ UNCHANGED <<outsideLatency, clock, ltMaxSize, ltSamples, ltObserved, ltFailed>>

LatencyNext ==
    \E h \in Handlers :
        \/ InvestigateFails(h)
        \/ InvestigateObserves(h)
        \/ InvestigateCounts(h)
        \/ InvestigateLogs(h)

LatencySpec == LatencyInit /\ [][LatencyNext]_vars

\* C23: for every n >= 1 that is a multiple of 20, the completion of the
\* n-th investigation handled by InvestigateIncident logs the current p95
\* latency, for any number of investigations and any interleaving of
\* concurrent ones.  (Investigations are counted by the samples they
\* record, so that a failed investigation does not count.)
C23_EveryTwentiethLogsP95 ==
    \A r \in ltDone : (r.n >= 1 /\ r.n % LogEvery = 0) => r.logged

(***************************************************************************)
(* Pipeline.buildTimeline on its own                                       *)
(***************************************************************************)
NoOutput == [done |-> FALSE]
Output(value) == [done |-> TRUE, value |-> value]

\* sort.Slice sorts a slice of at most 12 elements by insertion
InsertionSortLimit == 12
MaxMetricAnoms == 11

\* the permutations of 1..n
Perms(n) == {q \in [1..n -> 1..n] : Range(q) = 1..n}

\* the length of the run of events of one Time a sorted timeline starts with
RECURSIVE TieRun(_, _)
TieRun(sorted, n) ==
    IF n < Len(sorted) /\ sorted[n + 1].Time = sorted[1].Time THEN TieRun(sorted, n + 1) ELSE n

\* every order of a sorted timeline that keeps it sorted by Time
RECURSIVE TieOrders(_)
TieOrders(sorted) ==
    IF sorted = <<>> THEN {<<>>}
    ELSE LET n == TieRun(sorted, 1)
             rest == TieOrders(SubSeq(sorted, n + 1, Len(sorted)))
         IN  {[i \in 1..n |-> sorted[q[i]]] \o r : q \in Perms(n), r \in rest}

\* sort.Slice(timeline, by Time) as the standard library specifies it: the
\* result is sorted; events of equal Time keep their order in a slice of at
\* most 12 events and come in an order the library does not promise in a
\* longer one
SortSliceTimeline(timeline) ==
    IF Len(timeline) <= InsertionSortLimit THEN {SortTimeline(timeline)}
    ELSE TieOrders(SortTimeline(timeline))

\* n metric anomalies one tick apart, the one after position tie (if any)
\* at the time of its predecessor
MetricAnomsAt(n, tie) ==
    [k \in 1..n |-> [Timestamp |-> 100 + (IF tie > 0 /\ k > tie THEN k - 1 ELSE k), Value |-> 90,
                     Score |-> 3 * ScoreScale + k, Threshold |-> DefaultMetricThreshold]]
\* n log anomalies at time t
LogAnomsAt(n, t) ==
    [k \in 1..n |-> [Timestamp |-> t, Severity |-> "error", Count |-> 50, Score |-> 2 * ScoreScale + k]]
\* n trace anomalies at time t
TraceAnomsAt(n, t) ==
    [k \in 1..n |-> [Span |-> Span("checkout", "ok", 9, t), Score |-> 4 * ScoreScale + k]]

TimelineInputs ==
    {[metricAnoms |-> MetricAnomsAt(nm, tie), logAnoms |-> LogAnomsAt(nl, lt),
      traceAnoms |-> TraceAnomsAt(nt, tt)] :
        nm \in {1, 2, MaxMetricAnoms - 1, MaxMetricAnoms}, tie \in {0, 1},
        nl \in 0..2, lt \in {101, 102}, nt \in 0..1, tt \in {101, 103}}

TimelineInit ==
    /\ OutsidePureIdle
    /\ clock = ClockStart
    /\ pureIn \in TimelineInputs
    /\ pureOut = NoOutput

\* buildTimeline, lines 220-269
BuildTimeline ==
    /\ ~pureOut.done
    /\ \E sorted \in SortSliceTimeline(timelineEvents(pureIn.metricAnoms, pureIn.logAnoms,
                                                       pureIn.traceAnoms)) :
          pureOut' = Output(Take(sorted, MaxTimeline))
    /\ UNCHANGED <<outsidePure, clock, pureIn>>

TimelineNext == BuildTimeline

TimelineSpec == TimelineInit /\ [][TimelineNext]_vars

\* the position of an event among the events buildTimeline made, which are
\* in the order metric anomalies, log anomalies, trace anomalies
InsertionRank(e) ==
    LET all == timelineEvents(pureIn.metricAnoms, pureIn.logAnoms, pureIn.traceAnoms)
    IN  CHOOSE k \in 1..Len(all) : all[k] = e

\* C25: in every timeline buildTimeline returns, events with equal
\* timestamps appear in the order metric anomalies, then log anomalies, then
\* trace anomalies, and within one kind in anomaly insertion order (so that
\* identical inputs give the same event order).
C25_TiesInInsertionOrder ==
    pureOut.done =>
        \A i, j \in 1..Len(pureOut.value) :
            (i < j /\ pureOut.value[i].Time = pureOut.value[j].Time) =>
                InsertionRank(pureOut.value[i]) < InsertionRank(pureOut.value[j])

(***************************************************************************)
(* RuleEngine.Recommend on its own                                         *)
(***************************************************************************)
MaxRules == 2

RulePool ==
    Range(RulePack)
    \cup { [ID |-> "any", Service |-> "", Severity |-> "", SelectorContains |-> <<>>,
            Recommendations |-> <<"", "Page the owner", "Rule Rec">>],
           [ID |-> "payments", Service |-> "Payments", Severity |-> "", SelectorContains |-> <<"">>,
            Recommendations |-> <<"Check payment gateway">>] }

\* s with x put before position pos
InsertAt(s, pos, x) == SubSeq(s, 1, pos - 1) \o <<x>> \o SubSeq(s, pos, Len(s))

RuleInputs ==
    {[rules |-> rules, rule |-> rule, pos |-> pos, services |-> services, anchors |-> anchors,
      timeline |-> timeline] :
        rules \in DistinctSeqsUpTo(RulePool, MaxRules), rule \in RulePool, pos \in 1..(MaxRules + 1),
        services \in {<<"checkout">>, <<"payments">>},
        anchors \in {<<>>, buildAnchors("checkout", <<>>, <<>>, TraceAnomsAt(1, 101))},
        timeline \in {<<>>, buildTimeline(<<>>, LogAnomsAt(1, 101), <<>>),
                      buildTimeline(MetricAnomsAt(1, 0), <<>>, <<>>)}}

RuleInit ==
    /\ OutsidePureIdle
    /\ clock = ClockStart
    /\ pureIn \in RuleInputs
    /\ pureIn.pos <= Len(pureIn.rules) + 1
    /\ pureOut = NoOutput

\* Recommend of an engine with the rule list and of one with the list
\* extended by the rule
RecommendBoth ==
    /\ ~pureOut.done
    /\ LET r == [AffectedServices |-> pureIn.services]
       IN  pureOut' = Output([base |-> Recommend(pureIn.rules, r, pureIn.anchors, pureIn.timeline),
                              extended |-> Recommend(InsertAt(pureIn.rules, pureIn.pos, pureIn.rule),
                                                     r, pureIn.anchors, pureIn.timeline)])
    /\ UNCHANGED <<outsidePure, clock, pureIn>>

RuleNext == RecommendBoth

RuleSpec == RuleInit /\ [][RuleNext]_vars

MaxCausalityEvents == 2

\* spans of three services, with timestamps the aggregator may send; a span
\* whose JSON holds no timestamp decodes to the zero time
CausalitySpans ==
    {Span(service, "error", 9, ts) : service \in {"payments", "checkout", "inventory"},
                                     ts \in {ZeroTime, 100, 105}}

\* the timelines buildTimeline makes of the trace anomalies of such spans
CausalityTimelines ==
    {buildTimeline(<<>>, <<>>, [k \in 1..Len(ss) |-> [Span |-> ss[k], Score |-> 4 * ScoreScale]]) :
        ss \in DistinctSeqsUpTo(CausalitySpans, MaxCausalityEvents)}

CausalityEdgeLists ==
    DistinctSeqsUpTo(EdgePool \cup {Edge("payments", "checkout", 90, 0),
                                    Edge("inventory", "checkout", 50, 0),
                                    Edge("inventory", "checkout", 150, 3)}, MaxEdges)

CausalityInit ==
    /\ OutsidePureIdle
    /\ clock = ClockStart
    /\ \E rootService \in {"", "checkout"}, timeline \in CausalityTimelines, edges \in CausalityEdgeLists :
          pureIn = [rootService |-> rootService, timeline |-> timeline, edges |-> edges]
    /\ pureOut = NoOutput

\* CausalityEngine.Evaluate, lines 33-91
EvaluateCall ==
    /\ ~pureOut.done
    /\ pureOut' = Output(Evaluate(pureIn.rootService, pureIn.timeline, pureIn.edges))
    /\ UNCHANGED <<outsidePure, clock, pureIn>>

CausalityNext == EvaluateCall

CausalitySpec == CausalityInit /\ [][CausalityNext]_vars

\* the edges that target the root service
UpstreamEdges ==
    {k \in 1..Len(pureIn.edges) : EqualFold(pureIn.edges[k].Target, pureIn.rootService)}

\* the times of the events of a service in the timeline
EventTimes(service) ==
    {pureIn.timeline[i].Time : i \in {j \in 1..Len(pureIn.timeline) :
                                        EqualFold(pureIn.timeline[j].Service, service)}}

\* at least one edge targets the root service, and the source of every
\* such edge has an event strictly earlier than every event of the root
EverySourcePrecedesRoot ==
    /\ UpstreamEdges # {}
    /\ EventTimes(pureIn.rootService) # {}
    /\ \A k \in UpstreamEdges :
          \E t \in EventTimes(pureIn.edges[k].Source) :
              \A rt \in EventTimes(pureIn.rootService) : t < rt

\* C27: when at least one edge targets the root service and the source of
\* every such edge has a timeline event strictly earlier than the root
\* service's earliest event, Evaluate returns a score of exactly 1.0.
C27_PrecedingSourcesScoreOne ==
    (pureOut.done /\ EverySourcePrecedesRoot) => pureOut.value.Score = ConfScale

\* the same, for timelines without an event at the zero time
C27_ScoreOneWithoutZeroTimes ==
    (pureOut.done /\ EverySourcePrecedesRoot
       /\ \A i \in 1..Len(pureIn.timeline) : pureIn.timeline[i].Time # ZeroTime)
      => pureOut.value.Score = ConfScale

(***************************************************************************)
(* LogsExtractor.Detect on its own                                         *)
(***************************************************************************)
MaxBuckets == 6

\* a window of n buckets of count c and severity "info", but for the bucket
\* at position p, of count x and the given severity
LogWindow(n, c, p, x, severity) ==
    [k \in 1..n |-> [Timestamp |-> 100 + k,
                     Severity |-> IF k = p THEN severity ELSE "info",
                     Count |-> IF k = p THEN x ELSE c]]

LogWindows ==
    {LogWindow(n, c, p, c + d, severity) :
        n \in 1..MaxBuckets, c \in {0, 1, 10, 20}, p \in 1..MaxBuckets,
        d \in {0, 1, 3, 4, 6, 7, 30}, severity \in {"error", "ERROR", "warn"}}

LogsInit ==
    /\ OutsidePureIdle
    /\ clock = ClockStart
    /\ pureIn \in LogWindows
    /\ pureOut = NoOutput

\* LogsExtractor.Detect, lines 29-65
DetectCall ==
    /\ ~pureOut.done
    /\ pureOut' = Output(LogsDetect(pureIn))
    /\ UNCHANGED <<outsidePure, clock, pureIn>>

LogsNext == DetectCall

LogsSpec == LogsInit /\ [][LogsNext]_vars

\* the window has at least five buckets, all but the one at p of count c,
\* and the one at p of severity "error" in some letter case and of a count
\* above 1.3 c
UniformButErrorAt(p, c) ==
    /\ Len(pureIn) >= 5
    /\ p \in 1..Len(pureIn)
    /\ \A k \in 1..Len(pureIn) : k # p => pureIn[k].Count = c
    /\ EqualFold(pureIn[p].Severity, "error")
    /\ 10 * pureIn[p].Count > 13 * c

\* C28: for a window of at least five log buckets in which all buckets but
\* one have the same count c and the remaining bucket has severity "error"
\* (in any letter case) and a count greater than 1.3 c, LogsExtractor.Detect
\* emits at least one anomaly.
C28_ErrorSpikeDetected ==
    (pureOut.done /\ \E p \in 1..MaxBuckets, c \in 0..20 : UniformButErrorAt(p, c))
      => Len(pureOut.value) >= 1

\* an "ERROR" bucket of count 14 among buckets of count 10 was reported
C28_WeakSpikeReported ==
    /\ pureOut.done
    /\ \E p \in 1..MaxBuckets : UniformButErrorAt(p, 10) /\ pureIn[p].Count = 14
                                  /\ pureIn[p].Severity = "ERROR"
    /\ Len(pureOut.value) = 1

(***************************************************************************)
(* The affected services of a result of Investigate                       *)
(***************************************************************************)
\* C29: the affected-services list of every result contains the nominal
\* service, contains no empty entry and contains no string twice.
C29_AffectedServicesClean ==
    Assembled =>
        LET affected == result.AffectedServices
        IN  /\ NominalService(req) \in Range(affected)
            /\ "" \notin Range(affected)
            /\ \A i, j \in 1..Len(affected) : affected[i] = affected[j] => i = j

\* a request that lists an empty name and the nominal service got a result
\* that also names a neighbour of the service graph
C29_NeighbourAdded ==
    /\ Assembled
    /\ req.AffectedServices = <<"", "checkout">>
    /\ Len(result.AffectedServices) >= 2
    /\ result.AffectedServices[1] = "checkout"

(***************************************************************************)
(* Pipeline.buildAnchors on its own                                        *)
(***************************************************************************)
MaxAnoms == 4

AnchorInputs ==
    {[service |-> service, metricAnoms |-> MetricAnomsAt(nm, 0), logAnoms |-> LogAnomsAt(nl, 101),
      traceAnoms |-> TraceAnomsAt(nt, 103)] :
        service \in {"checkout", "unknown-service"}, nm \in 0..MaxAnoms, nl \in 0..2, nt \in 0..2}

AnchorsInit ==
    /\ OutsidePureIdle
    /\ clock = ClockStart
    /\ pureIn \in AnchorInputs
    /\ pureOut = NoOutput

\* buildAnchors, lines 173-218
BuildAnchors ==
    /\ ~pureOut.done
    /\ pureOut' = Output(buildAnchors(pureIn.service, pureIn.metricAnoms, pureIn.logAnoms,
                                      pureIn.traceAnoms))
    /\ UNCHANGED <<outsidePure, clock, pureIn>>

AnchorsNext == BuildAnchors

AnchorsSpec == AnchorsInit /\ [][AnchorsNext]_vars

\* the scores of the anomalies handed to buildAnchors
AnomalyScores ==
    [k \in 1..Len(pureIn.metricAnoms) |-> pureIn.metricAnoms[k].Score]
    \o [k \in 1..Len(pureIn.logAnoms) |-> pureIn.logAnoms[k].Score]
    \o [k \in 1..Len(pureIn.traceAnoms) |-> pureIn.traceAnoms[k].Score]

\* how often a value occurs in a sequence
Occurrences(s, v) == Cardinality({k \in 1..Len(s) : s[k] = v})

\* C30: the red anchors are ordered by non-increasing anomaly score, number
\* at most five, and no anomaly left out of the anchors has a higher score
\* than an anchor that was kept.
C30_AnchorsAreTopFive ==
    pureOut.done =>
        LET anchors == pureOut.value
            kept == [k \in 1..Len(anchors) |-> anchors[k].AnomalyScore]
        IN  /\ \A i, j \in 1..Len(anchors) : i < j => kept[i] >= kept[j]
            /\ Len(anchors) <= MaxAnchors
            /\ \A v \in Range(kept) : Occurrences(kept, v) <= Occurrences(AnomalyScores, v)
            /\ \A v \in Range(AnomalyScores) :
                  Occurrences(AnomalyScores, v) > Occurrences(kept, v) =>
                      \A k \in 1..Len(kept) : v <= kept[k]

\* eight anomalies of the three signals gave five anchors, a trace anomaly
\* first
C30_AnomaliesLeftOut ==
    /\ pureOut.done
    /\ Len(AnomalyScores) = 8
    /\ Len(pureOut.value) = MaxAnchors
    /\ pureOut.value[1].DataType = "traces"

(***************************************************************************)
(* computeConfidence and calibrateConfidence on their own                  *)
(***************************************************************************)
\* anomaly scores in hundredths: below zero (a fast span in error), zero,
\* at the thresholds, and far above every cap
ScorePool == {-2 * ScoreScale, 0, 2 * ScoreScale, 3 * ScoreScale, 9 * ScoreScale}

\* the score lists of one signal: none, one anomaly, or two
ScoreLists == {<<>>} \cup {<<a>> : a \in ScorePool} \cup {<<0, 3 * ScoreScale>>, <<9 * ScoreScale, -2 * ScoreScale>>}

\* the causality scores Evaluate can return, and the two ends beyond them
CausalityScores == {-ConfScale, 0, (4 * ConfScale) \div 10, (7 * ConfScale) \div 10, ConfScale, 2 * ConfScale}

ConfidenceInit ==
    /\ OutsidePureIdle
    /\ clock = ClockStart
    /\ \E ms \in ScoreLists, ls \in ScoreLists, ts \in ScoreLists, causality \in CausalityScores :
          pureIn = [metricAnoms |-> [k \in 1..Len(ms) |-> [Timestamp |-> 100 + k, Value |-> 90, Score |-> ms[k],
                                                          Threshold |-> DefaultMetricThreshold]],
                    logAnoms |-> [k \in 1..Len(ls) |-> [Timestamp |-> 100 + k, Severity |-> "error",
                                                       Count |-> 50, Score |-> ls[k]]],
                    traceAnoms |-> [k \in 1..Len(ts) |-> [Span |-> Span("checkout", "error", 9, 100 + k),
                                                         Score |-> ts[k]]],
                    causality |-> causality]
    /\ pureOut = NoOutput

\* Investigate, lines 119 and 155: the confidence of the result
ComputeConfidence ==
    /\ ~pureOut.done
    /\ pureOut' = Output(calibrateConfidence(computeConfidence(pureIn.metricAnoms, pureIn.logAnoms,
                                                              pureIn.traceAnoms),
                                             pureIn.causality))
    /\ UNCHANGED <<outsidePure, clock, pureIn>>

ConfidenceNext == ComputeConfidence

ConfidenceSpec == ConfidenceInit /\ [][ConfidenceNext]_vars

\* C31: the confidence of every result lies in [0, 1], for every
\* combination of anomaly scores and causality score.
C31_ConfidenceInUnitInterval ==
    pureOut.done => (pureOut.value >= 0 /\ pureOut.value <= ConfScale)

\* anomalies of all three signals far above the caps and a causality score
\* of 1 gave the confidence 1
C31_FullConfidence ==
    /\ pureOut.done
    /\ pureIn.causality = ConfScale
    /\ Len(pureIn.metricAnoms) > 0 /\ Len(pureIn.logAnoms) > 0 /\ Len(pureIn.traceAnoms) > 0
    /\ pureOut.value = ConfScale

\* the time Evaluate compares the sources with
CausalityRootTime ==
    IF rootEventTime(pureIn.rootService, pureIn.timeline) = ZeroTime
    THEN pureIn.timeline[1].Time
    ELSE rootEventTime(pureIn.rootService, pureIn.timeline)

\* the upstream edges whose source has a first event before the root time
TimeSupporting ==
    {k \in UpstreamEdges :
        /\ firstEventTime(pureIn.edges[k].Source, pureIn.timeline) # ZeroTime
        /\ firstEventTime(pureIn.edges[k].Source, pureIn.timeline) < CausalityRootTime}

\* the upstream edges whose source has no event and whose error rate is
\* positive
ErrorRateSupporting ==
    {k \in UpstreamEdges :
        /\ firstEventTime(pureIn.edges[k].Source, pureIn.timeline) = ZeroTime
        /\ pureIn.edges[k].ErrorRate > 0}

\* C33: Evaluate does not mix the two classes of supporting edges: with at
\* least one time-supporting upstream edge the suggestion is a
\* time-supporting edge of the highest call rate, otherwise an
\* error-rate-supporting edge of the highest error rate, whatever the order
\* of the edges.
C33_SuggestionKeepsClassesApart ==
    (pureOut.done /\ pureIn.rootService # "" /\ Len(pureIn.timeline) > 0)
    => IF TimeSupporting # {}
       THEN \E k \in TimeSupporting :
               /\ pureOut.value.SuggestedService = pureIn.edges[k].Source
               /\ \A j \in TimeSupporting : pureIn.edges[j].CallRate <= pureIn.edges[k].CallRate
       ELSE ErrorRateSupporting # {}
            => \E k \in ErrorRateSupporting :
                  /\ pureOut.value.SuggestedService = pureIn.edges[k].Source
                  /\ \A j \in ErrorRateSupporting : pureIn.edges[j].ErrorRate <= pureIn.edges[k].ErrorRate

\* round(p/100 * (n - 1)) for a whole percentage p
RoundedIndex(p, n) == (2 * p * (n - 1) + 100) \div 200

\* C36: for 0 < p < 100 and n >= 1 stored samples, Percentile(p) returns the
\* element at index round(p/100 * (n - 1)) of the samples sorted in
\* ascending order.
C36_PercentileAtRoundedIndex ==
    \A k \in 1..Len(ltLog) :
        (ltLog[k].p > 0 /\ ltLog[k].p < 100 /\ Len(ltLog[k].samples) >= 1)
        => ltLog[k].value
             = SortByKey(ltLog[k].samples, ltLog[k].samples)
                 [RoundedIndex(ltLog[k].p, Len(ltLog[k].samples)) + 1]

\* what Percentile returns: the element at the index cut down to a whole
\* number
C36_PercentileAtTruncatedIndex ==
    \A k \in 1..Len(ltLog) :
        (ltLog[k].p > 0 /\ ltLog[k].p < 100 /\ Len(ltLog[k].samples) >= 1)
        => ltLog[k].value
             = SortByKey(ltLog[k].samples, ltLog[k].samples)
                 [(ltLog[k].p * (Len(ltLog[k].samples) - 1)) \div 100 + 1]

(***************************************************************************)
(* WeaviateRepo: the writes, the cached reads and their cache keys         *)
(***************************************************************************)
MaxRepoCalls == 3

\* strings.TrimRight(endpoint, "/") on the endpoints of the model
TrimRightSlash(endpoint) ==
    CASE endpoint = "/" -> ""
      [] endpoint = "http://weaviate/" -> "http://weaviate"
      [] OTHER -> endpoint

\* NewWeaviateRepo
NewWeaviateRepo(endpoint, similarCacheTTL, patternCacheTTL) ==
    [endpoint |-> TrimRightSlash(endpoint),
     similarTTL |-> IF similarCacheTTL < 0 THEN 0 ELSE similarCacheTTL,
     patternTTL |-> IF patternCacheTTL < 0 THEN 0 ELSE patternCacheTTL]

\* the first position of a sequence of request outcomes that is a failure,
\* or 0
FirstFailure(outcomes) ==
    IF \A k \in 1..Len(outcomes) : outcomes[k] = "ok" THEN 0
    ELSE CHOOSE k \in 1..Len(outcomes) :
             outcomes[k] # "ok" /\ \A j \in 1..(k - 1) : outcomes[j] = "ok"

\* a write that posts whatever the endpoint is
StoreWriteAnyEndpoint(endpoint, outcomes) ==
    LET failed == FirstFailure(outcomes)
    IN  IF failed = 0 THEN [err |-> NoErr, requests |-> Len(outcomes)]
        ELSE [err |-> Error(outcomes[failed], <<>>), requests |-> failed]

\* StoreCorrelation, StorePatterns and StoreFeedback: no request and no
\* error without an endpoint; otherwise one POST per object, up to the first
\* that fails ("unreachable": Do failed, "rejected": status outside 2xx)
StoreWrite(endpoint, outcomes) ==
    IF endpoint = "" THEN [err |-> NoErr, requests |-> 0]
    ELSE LET failed == FirstFailure(outcomes)
         IN  IF failed = 0 THEN [err |-> NoErr, requests |-> Len(outcomes)]
             ELSE [err |-> Error(outcomes[failed], <<>>), requests |-> failed]

\* cachePatternsKey
cachePatternsKey(tenantID, service) == "weaviate:patterns:" \o tenantID \o ":" \o service

\* syntheticPatterns
syntheticPatterns(service) ==
    LET svc == IF service = "" THEN "synthetic-service" ELSE service
    IN  << [ID |-> "pattern-1", Services |-> <<svc>>, Prevalence |-> 32] >>

\* json.Marshal and json.Unmarshal of a pattern list
MarshalPatterns(patterns) ==
    [i \in 1..Len(patterns) |->
        << <<"patternId", patterns[i].ID>>, <<"services", patterns[i].Services>>,
           <<"prevalence", patterns[i].Prevalence>> >>]
UnmarshalPatterns(data) ==
    [i \in 1..Len(data) |->
        [ID |-> Member(data[i], "patternId"), Services |-> Member(data[i], "services"),
         Prevalence |-> Member(data[i], "prevalence")]]

\* what the store holds for a tenant: one correlation and one pattern
StoredRecords(tenantID) ==
    << [CorrelationID |-> <<"corr-", 1>>, Recommendations |-> <<"Runbook of " \o tenantID>>] >>
StoredPatterns(tenantID, service) ==
    << [ID |-> "pattern of " \o tenantID, Services |-> <<service>>, Prevalence |-> 50] >>

\* the callers: two tenants, with symptoms and services that hold the
\* separator of the keys
SimilarQueries ==
    {[tenantID |-> "a", subject |-> <<"b:3:c">>], [tenantID |-> "a:3:b", subject |-> <<"c">>]}
PatternQueries ==
    {[tenantID |-> "a", subject |-> "3:b:c"], [tenantID |-> "a:3:b", subject |-> "c"]}

RepoInit ==
    /\ OutsideRepoIdle
    /\ clock = ClockStart
    /\ \E endpoint \in {"", "/", "http://weaviate/"}, ttl \in {-1, 0, 2} :
          repoCfg = NewWeaviateRepo(endpoint, ttl, ttl)
    /\ repoCache = <<>>
    /\ repoCalls = <<>>

\* a call that wrote: its requests and its error; it makes no cache call
Written(kind, tenantID, written) ==
    [kind |-> kind, tenantID |-> tenantID, subject |-> <<>>, at |-> clock, key |-> "",
     upstream |-> "none", stored |-> FALSE, cacheOps |-> 0, requests |-> written.requests,
     results |-> <<>>, err |-> written.err]

\* WeaviateRepo.StoreCorrelation, lines 210-256
StoreCorrelationCall ==
    /\ Len(repoCalls) < MaxRepoCalls
    /\ \E outcome \in {"ok", "rejected"} :
          repoCalls' = Append(repoCalls,
              Written("StoreCorrelation", "a", StoreWrite(repoCfg.endpoint, <<outcome>>)))
    /\ UNCHANGED <<outsideRepo, clock, repoCfg, repoCache>>

\* WeaviateRepo.StorePatterns, lines 119-164, with two patterns
StorePatternsCall ==
    /\ Len(repoCalls) < MaxRepoCalls
    /\ \E outcomes \in {<<"ok", "ok">>, <<"ok", "rejected">>} :
          repoCalls' = Append(repoCalls,
              Written("StorePatterns", "a", StoreWrite(repoCfg.endpoint, outcomes)))
    /\ UNCHANGED <<outsideRepo, clock, repoCfg, repoCache>>

\* WeaviateRepo.StoreFeedback, lines 167-207
StoreFeedbackCall ==
    /\ Len(repoCalls) < MaxRepoCalls
    /\ \E outcome \in {"ok", "unreachable"} :
          repoCalls' = Append(repoCalls,
              Written("StoreFeedback", "a", StoreWrite(repoCfg.endpoint, <<outcome>>)))
    /\ UNCHANGED <<outsideRepo, clock, repoCfg, repoCache>>

\* the cached read both SimilarIncidents and FetchPatterns make: synthetic
\* data without an endpoint; with a TTL the cached value of the key if the
\* cache holds one; otherwise what the request gave, cached when it came
\* from the store and is not empty
CachedRead(kind, q, ttl, cacheKey, outcome, fetched, synthetic, Marshal(_), Unmarshal(_)) ==
    LET call == [kind |-> kind, tenantID |-> q.tenantID, subject |-> q.subject, at |-> clock]
        key  == IF ttl > 0 THEN cacheKey ELSE ""
        got  == ProviderGet(repoCache, key, clock)
        hit  == ttl > 0 /\ got.err = NoErr
        store == outcome = "ok" /\ ttl > 0 /\ key # "" /\ Len(fetched) > 0
    IN  IF repoCfg.endpoint = ""
        THEN /\ outcome = "ok"
             /\ repoCalls' = Append(repoCalls,
                    call @@ [key |-> "", upstream |-> "none", stored |-> FALSE, cacheOps |-> 0,
                             requests |-> 0, results |-> synthetic, err |-> NoErr])
             /\ repoCache' = repoCache
        ELSE IF hit
        THEN /\ outcome = "ok"
             /\ repoCalls' = Append(repoCalls,
                    call @@ [key |-> key, upstream |-> "none", stored |-> FALSE, cacheOps |-> 1,
                             requests |-> 0, results |-> Unmarshal(got.data), err |-> NoErr])
             /\ repoCache' = repoCache
        ELSE /\ repoCalls' = Append(repoCalls,
                    call @@ [key |-> key, upstream |-> outcome, stored |-> store,
                             cacheOps |-> (IF ttl > 0 THEN 1 ELSE 0) + (IF store THEN 1 ELSE 0),
                             requests |-> 1, results |-> fetched, err |-> NoErr])
             /\ repoCache' = IF store
                             THEN ProviderSet(repoCache, key, Marshal(fetched), ttl, clock)
                             ELSE repoCache

\* WeaviateRepo.SimilarIncidents, lines 259-368
SimilarIncidentsRead ==
    /\ Len(repoCalls) < MaxRepoCalls
    /\ \E q \in SimilarQueries, outcome \in {"ok", "unreachable"} :
          CachedRead("SimilarIncidents", q, repoCfg.similarTTL,
                     cacheSimilarIncidentsKey(q.tenantID, SortStrings(q.subject), SimilarLimit),
                     outcome,
                     SimilarIncidents(outcome, StoredRecords(q.tenantID), q.subject, SimilarLimit).results,
                     syntheticSimilarIncidents(q.subject, SimilarLimit),
                     MarshalResults, UnmarshalResults)
    /\ UNCHANGED <<outsideRepo, clock, repoCfg>>

\* WeaviateRepo.FetchPatterns, lines 547-687
FetchPatternsRead ==
    /\ Len(repoCalls) < MaxRepoCalls
    /\ \E q \in PatternQueries, outcome \in {"ok", "non-200"} :
          CachedRead("FetchPatterns", q, repoCfg.patternTTL,
                     cachePatternsKey(q.tenantID, q.subject),
                     outcome,
                     IF outcome = "ok" THEN StoredPatterns(q.tenantID, q.subject)
                     ELSE syntheticPatterns(q.subject),
                     syntheticPatterns(q.subject),
                     MarshalPatterns, UnmarshalPatterns)
    /\ UNCHANGED <<outsideRepo, clock, repoCfg>>

\* a tick passes, up to the end of the TTL of the cached reads
Elapse ==
    /\ clock < ClockStart + repoCfg.similarTTL
    /\ clock' = clock + 1
    /\ UNCHANGED <<outsideRepo, repoCfg, repoCache, repoCalls>>

RepoNext ==
    \/ StoreCorrelationCall
    \/ StorePatternsCall
    \/ StoreFeedbackCall
    \/ SimilarIncidentsRead
    \/ FetchPatternsRead
    \/ Elapse

RepoSpec == RepoInit /\ [][RepoNext]_vars

IsWrite(call) == call.kind \in {"StoreCorrelation", "StorePatterns", "StoreFeedback"}

\* C32: with no store endpoint configured, StoreCorrelation, StorePatterns
\* and StoreFeedback each return success and issue no HTTP request.
C32_NoEndpointWritesAreNoOps ==
    repoCfg.endpoint = "" =>
        \A i \in 1..Len(repoCalls) :
            IsWrite(repoCalls[i]) => (repoCalls[i].err = NoErr /\ repoCalls[i].requests = 0)

\* without an endpoint each of the three writes was called
C32_ThreeWritesWithoutEndpoint ==
    /\ repoCfg.endpoint = ""
    /\ {repoCalls[i].kind : i \in 1..Len(repoCalls)}
         = {"StoreCorrelation", "StorePatterns", "StoreFeedback"}

IsRead(call) == call.kind \in {"SimilarIncidents", "FetchPatterns"}

\* C38: cached reads are tenant-scoped: two calls with different tenant ids
\* never use the same cache key, and a result cached for one tenant is never
\* returned to another.
C38_CacheKeysTenantScoped ==
    \A i, j \in 1..Len(repoCalls) :
        (/\ i < j
         /\ IsRead(repoCalls[i]) /\ IsRead(repoCalls[j])
         /\ repoCalls[i].kind = repoCalls[j].kind
         /\ repoCalls[i].key # "" /\ repoCalls[j].key # ""
         /\ repoCalls[i].tenantID # repoCalls[j].tenantID)
        => /\ repoCalls[i].key # repoCalls[j].key
           /\ (repoCalls[j].upstream = "none" => repoCalls[j].results # repoCalls[i].results)

\* C40: the three writes make no cache call and leave the cache as it is, so
\* a read whose result was cached is answered with that result by every later
\* read of the same query made before the TTL has elapsed, whatever was
\* written in between.
C40_WritesLeaveCachedReads ==
    /\ \A k \in 1..Len(repoCalls) : IsWrite(repoCalls[k]) => repoCalls[k].cacheOps = 0
    /\ \A i, j \in 1..Len(repoCalls) :
          (/\ i < j
           /\ repoCalls[i].stored
           /\ repoCalls[j].kind = repoCalls[i].kind
           /\ repoCalls[j].tenantID = repoCalls[i].tenantID
           /\ repoCalls[j].subject = repoCalls[i].subject
           /\ repoCalls[j].at < repoCalls[i].at + repoCfg.similarTTL
           /\ \A k \in (i + 1)..(j - 1) : IsWrite(repoCalls[k]))
          => /\ repoCalls[j].upstream = "none"
             /\ repoCalls[j].requests = 0
             /\ repoCalls[j].results = repoCalls[i].results

\* a result was cached, then a write reached the store, then the same read
\* was made again within the TTL
C40_ReadWriteRead ==
    \E i, j \in 1..Len(repoCalls) :
        /\ j = i + 2
        /\ repoCalls[i].stored
        /\ IsWrite(repoCalls[i + 1]) /\ repoCalls[i + 1].requests > 0
        /\ repoCalls[j].kind = repoCalls[i].kind
        /\ repoCalls[j].tenantID = repoCalls[i].tenantID
        /\ repoCalls[j].subject = repoCalls[i].subject
        /\ repoCalls[j].at > repoCalls[i].at
        /\ repoCalls[j].at < repoCalls[i].at + repoCfg.similarTTL

\* a read of one tenant answered from the cache with what the store had
\* returned to another tenant
C38_AnsweredWithAnotherTenantsResult ==
    \E i, j \in 1..Len(repoCalls) :
        /\ i < j
        /\ repoCalls[i].stored
        /\ repoCalls[j].kind = repoCalls[i].kind
        /\ repoCalls[j].tenantID # repoCalls[i].tenantID
        /\ repoCalls[j].upstream = "none" /\ repoCalls[j].cacheOps = 1
        /\ repoCalls[j].results = repoCalls[i].results

(***************************************************************************)
(* valkeyConn: the deadlines of a command and of its reply                 *)
(***************************************************************************)
MaxCommands == 2

\* normaliseDurations, the read and write timeouts: 500 ms for a timeout
\* that is not positive
normaliseDurations(cfg) ==
    [ReadTimeout |-> IF cfg.ReadTimeout <= 0 THEN 500 * TicksPerMs ELSE cfg.ReadTimeout,
     WriteTimeout |-> IF cfg.WriteTimeout <= 0 THEN 500 * TicksPerMs ELSE cfg.WriteTimeout]

\* readTimeout and writeTimeout
readTimeout(cfg) == cfg.ReadTimeout
writeTimeout(cfg) == cfg.WriteTimeout

\* context.Background and contexts that end one and three ticks after the
\* start
Contexts ==
    {[hasDeadline |-> FALSE, deadline |-> NilTimestamp]}
    \cup {[hasDeadline |-> TRUE, deadline |-> ClockStart + d] : d \in {1, 3}}

\* ctx.Err() != nil
ContextExpired == connCtx.hasDeadline /\ clock >= connCtx.deadline

ConnInit ==
    /\ OutsideConnIdle
    /\ clock = ClockStart
    /\ \E r \in {0, 2}, w \in {-1, 1} :
          connCfg = normaliseDurations([ReadTimeout |-> r, WriteTimeout |-> w])
    /\ connCtx \in Contexts
    /\ connDeadlines = <<>>

\* the command of the attempt is written and its reply is still to be read
CommandWritten ==
    Len(connDeadlines) > 0 /\ connDeadlines[Len(connDeadlines)].kind = "write"

\* withConn, lines 171-173, and valkeyConn.write, lines 312-331, called by
\* the function of Get, Set, SetNX, Del or ping: the attempt starts while
\* the context is not done, and the write deadline is set
ConnWrite ==
    /\ ~CommandWritten
    /\ Len(connDeadlines) < 2 * MaxCommands
    /\ ~ContextExpired
    /\ connDeadlines' = Append(connDeadlines,
            [kind |-> "write", setAt |-> clock, deadline |-> clock + writeTimeout(connCfg)])
    /\ UNCHANGED <<outsideConn, clock, connCfg, connCtx>>

\* valkeyConn.readReply, lines 333-377: the read deadline is set
ConnReadReply ==
    /\ CommandWritten
    /\ connDeadlines' = Append(connDeadlines,
            [kind |-> "read", setAt |-> clock, deadline |-> clock + readTimeout(connCfg)])
    /\ UNCHANGED <<outsideConn, clock, connCfg, connCtx>>

ConnNext ==
    \/ ConnWrite
    \/ ConnReadReply
    \/ Tick

ConnSpec == ConnInit /\ [][ConnNext]_vars

\* C35: every read deadline and write deadline set on a connection is no
\* later than the context deadline of the caller and no later than the
\* configured read or write timeout counted from the moment it is set.
C35_DeadlinesWithinContext ==
    \A k \in 1..Len(connDeadlines) :
        /\ connCtx.hasDeadline => connDeadlines[k].deadline <= connCtx.deadline
        /\ connDeadlines[k].deadline
             <= connDeadlines[k].setAt + (IF connDeadlines[k].kind = "read"
                                          THEN connCfg.ReadTimeout ELSE connCfg.WriteTimeout)

\* the half of it that the code keeps: the configured timeout
C35_DeadlinesWithinTimeout ==
    \A k \in 1..Len(connDeadlines) :
        connDeadlines[k].deadline
          = connDeadlines[k].setAt + (IF connDeadlines[k].kind = "read"
                                      THEN connCfg.ReadTimeout ELSE connCfg.WriteTimeout)

(***************************************************************************)
(* Miner.Mine on its own (the anchor templates of a pattern left out)      *)
(***************************************************************************)
MaxBatch == 2

\* ensureAggregate: the key of the aggregate of a service
AggregateKey(service) == IF service = "" THEN "unknown" ELSE service

NoAggregate == [count |-> 0, totalCorrelations |-> 0, lastSeen |-> ZeroTime]

\* ensureAggregate
ensureAggregate(stats, service) ==
    IF AggregateKey(service) \in DOMAIN stats THEN stats
    ELSE (AggregateKey(service) :> NoAggregate) @@ stats

RECURSIVE CountServices(_, _, _)
\* Mine, lines 41-47: the first loop over the affected services
CountServices(stats, services, createdAt) ==
    IF services = <<>> THEN stats
    ELSE LET ensured == ensureAggregate(stats, Head(services))
             key == AggregateKey(Head(services))
         IN  CountServices([ensured EXCEPT ![key].count = @ + 1,
                                           ![key].lastSeen = IF createdAt > @ THEN createdAt ELSE @],
                           Tail(services), createdAt)

RECURSIVE CountAnchors(_, _, _)
\* Mine, lines 48-60: the loop over the red anchors
CountAnchors(stats, anchors, createdAt) ==
    IF anchors = <<>> THEN stats
    ELSE LET ensured == ensureAggregate(stats, Head(anchors).Service)
             key == AggregateKey(Head(anchors).Service)
         IN  CountAnchors(IF Head(anchors).Selector = "" THEN ensured
                          ELSE [ensured EXCEPT ![key].lastSeen = IF createdAt > @ THEN createdAt ELSE @],
                          Tail(anchors), createdAt)

RECURSIVE CountCorrelations(_, _)
\* Mine, lines 61-64: the second loop over the affected services
CountCorrelations(stats, services) ==
    IF services = <<>> THEN stats
    ELSE LET ensured == ensureAggregate(stats, Head(services))
         IN  CountCorrelations([ensured EXCEPT ![AggregateKey(Head(services))].totalCorrelations = @ + 1],
                               Tail(services))

RECURSIVE ServiceStats(_, _)
\* Mine, lines 38-65: the aggregates of a batch
ServiceStats(stats, correlations) ==
    IF correlations = <<>> THEN stats
    ELSE LET corr == Head(correlations)
         IN  ServiceStats(CountCorrelations(
                              CountAnchors(CountServices(stats, corr.AffectedServices, corr.CreatedAt),
                                           corr.RedAnchors, corr.CreatedAt),
                              corr.AffectedServices),
                          Tail(correlations))

\* Mine, lines 68-81: the pattern of a service; the prevalence in
\* ten-thousandths
MinedPattern(service, agg, batchSize) ==
    [ID |-> "pattern-" \o service, Services |-> <<service>>,
     Prevalence |-> (agg.count * ConfScale) \div batchSize, LastSeen |-> agg.lastSeen]

\* Mine: the lists it can return, the patterns of the services whose
\* aggregate counts a correlation, by descending prevalence; the map is
\* walked and equal prevalences are left in any order
Mine(correlations) ==
    IF Len(correlations) = 0 THEN {<<>>}
    ELSE LET stats == ServiceStats(<<>>, correlations)
             emitted == {service \in DOMAIN stats : stats[service].totalCorrelations # 0}
             patterns == {MinedPattern(service, stats[service], Len(correlations)) : service \in emitted}
         IN  {out \in [1..Cardinality(patterns) -> patterns] :
                 /\ Range(out) = patterns
                 /\ \A i \in 1..(Len(out) - 1) : out[i].Prevalence >= out[i + 1].Prevalence}

\* the correlations of a batch: with no service, one service, two services,
\* one service listed twice and the empty service name; with and without a
\* red anchor of a service of their own
BatchCorrelations ==
    {[AffectedServices |-> services, RedAnchors |-> anchors, CreatedAt |-> at] :
        services \in {<<>>, <<"checkout">>, <<"checkout", "payments">>, <<"checkout", "checkout">>,
                      <<"", "unknown">>},
        anchors \in {<<>>, <<[Service |-> "inventory", Selector |-> "metrics:cpu", AnomalyScore |-> 3 * ScoreScale]>>},
        at \in {100}}

MineInit ==
    /\ OutsidePureIdle
    /\ clock = ClockStart
    /\ pureIn \in SeqsUpTo(BatchCorrelations, MaxBatch)
    /\ pureOut = NoOutput

\* Miner.Mine, lines 33-108
MineCall ==
    /\ ~pureOut.done
    /\ \E out \in Mine(pureIn) : pureOut' = Output(out)
    /\ UNCHANGED <<outsidePure, clock, pureIn>>

MineNext == MineCall

MineSpec == MineInit /\ [][MineNext]_vars

\* the number of correlations of the batch that list the service
ListedIn(batch, service) ==
    Cardinality({i \in 1..Len(batch) : service \in Range(batch[i].AffectedServices)})

\* C37: for every batch of correlations, every pattern Mine emits has a
\* prevalence equal to the number of correlations of the batch that list its
\* service among their affected services divided by the size of the batch,
\* hence a value in [0, 1].
C37_PrevalenceIsFractionOfBatch ==
    pureOut.done =>
        \A k \in 1..Len(pureOut.value) :
            /\ pureOut.value[k].Prevalence
                 = (ListedIn(pureIn, pureOut.value[k].Services[1]) * ConfScale) \div Len(pureIn)
            /\ pureOut.value[k].Prevalence >= 0
            /\ pureOut.value[k].Prevalence <= ConfScale

\* no correlation of the batch lists a service twice or lists the empty name
CleanBatch ==
    \A i \in 1..Len(pureIn) :
        /\ "" \notin Range(pureIn[i].AffectedServices)
        /\ \A a, b \in 1..Len(pureIn[i].AffectedServices) :
              pureIn[i].AffectedServices[a] = pureIn[i].AffectedServices[b] => a = b

\* the same, for the batches whose correlations list each service once
C37_PrevalenceOfCleanBatches ==
    (pureOut.done /\ CleanBatch) =>
        \A k \in 1..Len(pureOut.value) :
            /\ pureOut.value[k].Prevalence
                 = (ListedIn(pureIn, pureOut.value[k].Services[1]) * ConfScale) \div Len(pureIn)
            /\ pureOut.value[k].Prevalence >= 0
            /\ pureOut.value[k].Prevalence <= ConfScale

(***************************************************************************)
(* The in-memory ValkeyCache: goroutines calling Get, Set and Delete on    *)
(* one key                                                                 *)
(***************************************************************************)
MaxMemCalls == 2
Goroutines == {1, 2}

NoItem == [present |-> FALSE, expiresAt |-> ZeroTime]

\* a goroutine between two calls
Resting(calls, found) == [op |-> "", pc |-> "idle", ttl |-> 0, calls |-> calls, found |-> found]

\* NewValkeyCache
MemInit ==
    /\ OutsideMemIdle
    /\ clock = ClockStart
    /\ memData = NoItem
    /\ memLock = [readers |-> {}, writer |-> {}]
    /\ memProcs = [g \in Goroutines |-> Resting(0, FALSE)]
    /\ memFatal = FALSE

\* the goroutine is reading the map
ReadsMap(g) == memProcs[g].pc = "reading"
\* the goroutine is writing the map
WritesMap(g) == memProcs[g].pc \in {"deleting", "writing"}

\* another goroutine is at the map while g ends a write of it, or another
\* writes it while g ends a read: the runtime may detect the concurrent
\* access and stop the process, or not
Unsynchronised(g) ==
    \E h \in Goroutines \ {g} :
        \/ WritesMap(h)
        \/ WritesMap(g) /\ ReadsMap(h)

MayBeFatal(g) ==
    \/ memFatal' = FALSE
    \/ Unsynchronised(g) /\ memFatal' = TRUE

\* Get, lines 26-29: RLock is taken and the lookup of the key starts
GetStart(g) ==
    /\ ~memFatal
    /\ memProcs[g].pc = "idle" /\ memProcs[g].calls < MaxMemCalls
    /\ memLock.writer = {}
    /\ memLock' = [memLock EXCEPT !.readers = @ \cup {g}]
    /\ memProcs' = [memProcs EXCEPT ![g] = [op |-> "Get", pc |-> "reading", ttl |-> 0,
                                             calls |-> @.calls + 1, found |-> FALSE]]
    /\ UNCHANGED <<outsideMem, clock, memData, memFatal>>

\* Get, lines 29-37: the lookup ends; a miss and a hit return and release
\* the lock, an expired item starts the delete of line 34
GetLookedUp(g) ==
    /\ ~memFatal
    /\ memProcs[g].pc = "reading"
    /\ IF memData.present /\ memData.expiresAt # ZeroTime /\ clock > memData.expiresAt
       THEN /\ memProcs' = [memProcs EXCEPT ![g].pc = "deleting"]
            /\ memLock' = memLock
       ELSE /\ memProcs' = [memProcs EXCEPT ![g] = Resting(@.calls, memData.present)]
            /\ memLock' = [memLock EXCEPT !.readers = @ \ {g}]
    /\ MayBeFatal(g)
    /\ UNCHANGED <<outsideMem, clock, memData>>

\* Get, lines 34-35: the delete of the expired item ends, under the read
\* lock, and Get returns
GetDeleted(g) ==
    /\ ~memFatal
    /\ memProcs[g].pc = "deleting"
    /\ memData' = NoItem
    /\ memProcs' = [memProcs EXCEPT ![g] = Resting(@.calls, FALSE)]
    /\ memLock' = [memLock EXCEPT !.readers = @ \ {g}]
    /\ MayBeFatal(g)
    /\ UNCHANGED <<outsideMem, clock>>

\* Set, lines 42-56, and Delete, lines 60-62: Lock is taken and the write
\* of the map starts
WriteStart(g) ==
    /\ ~memFatal
    /\ memProcs[g].pc = "idle" /\ memProcs[g].calls < MaxMemCalls
    /\ memLock.writer = {} /\ memLock.readers = {}
    /\ memLock' = [memLock EXCEPT !.writer = {g}]
    /\ \E op \in {"Set", "Delete"}, ttl \in {0, 1} :
          /\ op = "Delete" => ttl = 0
          /\ memProcs' = [memProcs EXCEPT ![g] = [op |-> op, pc |-> "writing", ttl |-> ttl,
                                                   calls |-> @.calls + 1, found |-> FALSE]]
    /\ UNCHANGED <<outsideMem, clock, memData, memFatal>>

\* Set and Delete: the write ends and the lock is released
WriteDone(g) ==
    /\ ~memFatal
    /\ memProcs[g].pc = "writing"
    /\ memData' = IF memProcs[g].op = "Delete" THEN NoItem
                  ELSE [present |-> TRUE,
                        expiresAt |-> IF memProcs[g].ttl > 0 THEN clock + memProcs[g].ttl ELSE ZeroTime]
    /\ memProcs' = [memProcs EXCEPT ![g] = Resting(@.calls, FALSE)]
    /\ memLock' = [memLock EXCEPT !.writer = {}]
    /\ MayBeFatal(g)
    /\ UNCHANGED <<outsideMem, clock>>

MemNext ==
    \/ \E g \in Goroutines : GetStart(g)
    \/ \E g \in Goroutines : GetLookedUp(g)
    \/ \E g \in Goroutines : GetDeleted(g)
    \/ \E g \in Goroutines : WriteStart(g)
    \/ \E g \in Goroutines : WriteDone(g)
    \/ Tick

MemSpec == MemInit /\ [][MemNext]_vars

\* C39: the entry map is modified only under the exclusive lock: under any
\* interleaving of concurrent Get, Set and Delete calls no two goroutines
\* write the map at the same time and no goroutine writes it while another
\* reads it.
C39_MapWrittenUnderExclusiveLock ==
    \A g \in Goroutines :
        WritesMap(g) => /\ memLock.writer = {g}
                        /\ \A h \in Goroutines \ {g} : ~WritesMap(h) /\ ~ReadsMap(h)

\* the part of it that holds: the writes of Set and Delete are made under
\* the exclusive lock, with no other goroutine at the map
C39_SetAndDeleteExclusive ==
    \A g \in Goroutines :
        memProcs[g].pc = "writing"
        => /\ memLock.writer = {g}
           /\ \A h \in Goroutines \ {g} : ~WritesMap(h) /\ ~ReadsMap(h)

\* two calls of Get delete the expired item at the same time
C39_TwoGetsDeleteAtOnce ==
    \A g \in Goroutines : memProcs[g].pc = "deleting"

====
